---- MODULE Spec2Model ----
(***************************************************************************)
(* The code-submission judge of llmeetCode (app.py): run_tests and         *)
(* run_single_test, with the child interpreter each call spawns.           *)
(* Python strings are sequences of one-character strings, so that strip(), *)
(* startswith() and the f-strings of the trailer are computed, not assumed.*)
(***************************************************************************)
EXTENDS Integers, Sequences, FiniteSets

VARIABLES
    code,        \* the candidate code: what it does when the child loads it
    setup_code,  \* the setup code: "ok" or "raise"
    tests,       \* the list of test cases given to run_tests
    rt_pc,       \* run_tests: "loop", "returned", "raised"
    i,           \* run_tests: 1-based position of the for loop
    results,     \* run_tests: the dict {'all_passed', 'test_results'}
    rst_pc,      \* run_single_test: "idle","create","write","spawn","wait",
                 \*   "finally","returned","raised"
    pending,     \* run_single_test: the value of the return statement executed
    temp_path,   \* run_single_test: the local temp_path, 0 while unbound
    files,       \* the temporary files that exist on disk
    created,     \* how many temporary files were ever created
    child_pc,    \* the child: "none","compile","setup","code","trailer",
                 \*   "looping","exited","killed"
    stdout,      \* text the child has written to its output channel
    stderr,      \* text the child has written to its error channel
    cur,         \* history of the call in progress
    log,         \* history: one record per finished run_single_test call
    \* the FastAPI application (app/main.py) and what it talks to
    db_completed,   \* table completed_problems: rows per (user_id, problem_id)
    db_tokens,      \* table codespace_tokens
    db_user_repos,  \* table user_repos
    db_users,       \* table users: hide_completed of each user
    gh_codespaces,  \* GitHub: the codespaces that exist
    gh_repos,       \* GitHub: the repositories created from templates
    gh_calls,       \* GitHub: the calls made for the request being answered
    now,            \* the clock, in units of the token lifetime
    resp,           \* the last request and the answer it got
    \* list_user_codespaces (app/main.py)
    ls_codespaces,  \* the display names GitHub lists for the user
    ls_problem_id,  \* the problem_id argument, <<"None">> when not given
    ls_result,      \* what the function returned
    \* the chat routes of the Flask application (app.py)
    chat_session,   \* the session: chat_history_<problem_id> keys and lists
    chat_expected,  \* history: the exchanges answered 200 since the last clear
    chat_resp,      \* the last chat request and its status
    \* run_single_test called by requests served at the same time
    cc_call,        \* per request: where its call is, its locals, its child
    cc_disk,        \* the temporary files on disk: who wrote what into each
    cc_created,     \* how many temporary files were ever created
    cc_log,         \* history: one record per child that was started
    \* format_test_cases (llm.py)
    ft_tests,       \* the list of test cases given to the function
    ft_result,      \* what the function returned
    \* get_database_url (app/database.py)
    du_url,         \* the url argument, <<"None">> when not given
    du_env,         \* os.environ: DATABASE_URL, <<"None">> when not set
    du_result,      \* what the call returned or raised, and of what
    \* the submit and history routes of the Flask application (app.py)
    sb_session,     \* the session: the 'submissions' dict, or no such key
    sb_resp,        \* the last request and the answer it got
    sb_runs,        \* how many test cases were run for the last request
    sb_log,         \* history: one record per submit request
    \* requests that mark a pair complete, served by several workers
    rc_req,         \* per request: where its handler is and what it read
    rc_rows         \* table completed_problems: rows per (user_id, problem_id)

judgeVars == <<code, setup_code, tests, rt_pc, i, results, rst_pc, pending,
               temp_path, files, created, child_pc, stdout, stderr, cur, log>>

webVars == <<db_completed, db_tokens, db_user_repos, db_users, gh_codespaces,
             gh_repos, gh_calls, now, resp>>

listVars == <<ls_codespaces, ls_problem_id, ls_result>>

chatVars == <<chat_session, chat_expected, chat_resp>>

fmtVars == <<ft_tests, ft_result>>

urlVars == <<du_url, du_env, du_result>>

subVars == <<sb_session, sb_resp, sb_runs, sb_log>>

raceVars == <<rc_req, rc_rows>>

laterVars == <<fmtVars, urlVars, subVars, raceVars>>

concVars == <<cc_call, cc_disk, cc_created, cc_log>>

vars == <<judgeVars, webVars, listVars, chatVars, concVars, laterVars>>

----------------------------------------------------------------------------
(* Bounds *)

MaxTests == 2
MaxValue == 1

----------------------------------------------------------------------------
(* Text *)

PASS == <<"P","A","S","S">>
FAIL == <<"F","A","I","L">>
MsgTestPassed == <<"T","e","s","t"," ","p","a","s","s","e","d">>
MsgTimeout == <<"T","i","m","e","o","u","t",":"," ","C","o","d","e"," ","t","o","o","k"," ","t","o","o"," ","l","o","n","g"," ","t","o"," ","e","x","e","c","u","t","e">>
MsgUnknown == <<"U","n","k","n","o","w","n"," ","e","r","r","o","r">>
FailPrefix == <<"F","A","I","L",":"," ">>
ErrorPrefix == <<"E","R","R","O","R",":"," ">>
ExpectedWord == <<"E","x","p","e","c","t","e","d"," ">>
GotWord == <<","," ","g","o","t"," ">>
NL == <<"\n">>
\* str(e) of the exceptions the judge itself can meet
MsgNoSpace == <<"[","E","r","r","n","o"," ","2","8","]"," ","N","o"," ","s","p","a","c","e"," ","l","e","f","t"," ","o","n"," ","d","e","v","i","c","e">>
MsgEncode == <<"s","u","r","r","o","g","a","t","e","s"," ","n","o","t"," ","a","l","l","o","w","e","d">>
MsgNoPython == <<"[","E","r","r","n","o"," ","2","]"," ","N","o"," ","s","u","c","h"," ","f","i","l","e"," ","o","r"," ","d","i","r","e","c","t","o","r","y",":"," ","'","p","y","t","h","o","n","3","'">>
\* what the interpreter writes to the error channel
SyntaxErrorText == <<"S","y","n","t","a","x","E","r","r","o","r",":"," ","i","n","v","a","l","i","d"," ","s","y","n","t","a","x","\n">>
TracebackText == <<"T","r","a","c","e","b","a","c","k"," ","(","m","o","s","t"," ","r","e","c","e","n","t"," ","c","a","l","l"," ","l","a","s","t",")","\n">>
\* text chosen by the candidate code
Boom == <<"b","o","o","m">>
Inner == <<"i","n","n","e","r">>
Debug == <<"d","e","b","u","g","\n">>
PassLine == <<"P","A","S","S","\n">>
Warn == <<"w","a","r","n","\n">>

Digits == <<"0","1","2","3","4","5","6","7","8","9">>

\* str(v) of a small non-negative integer
Str(v) == <<Digits[v + 1]>>

Whitespace == {" ", "\n", "\t"}

RECURSIVE LStrip(_)
LStrip(s) == IF s # <<>> /\ Head(s) \in Whitespace THEN LStrip(Tail(s)) ELSE s

RECURSIVE RStrip(_)
RStrip(s) ==
    IF s # <<>> /\ s[Len(s)] \in Whitespace
    THEN RStrip(SubSeq(s, 1, Len(s) - 1)) ELSE s

\* str.strip()
Strip(s) == RStrip(LStrip(s))

\* str.startswith(p)
StartsWith(s, p) == Len(s) >= Len(p) /\ SubSeq(s, 1, Len(p)) = p

\* an  or  that prefers its second operand
Or_Second(a, b) == IF b # <<>> THEN b ELSE a

\* Python's  a or b  on strings
Or(a, b) == IF a # <<>> THEN a ELSE b

\* print(s) in the child
PrintLine(s) == s \o NL

----------------------------------------------------------------------------
(* Inputs *)

Value(v) == [kind |-> "value", val |-> v]
Raises == [kind |-> "raise", val |-> 0]
Asserts == [kind |-> "assert", val |-> 0]
Loops == [kind |-> "loop", val |-> 0]

\* what evaluating test['input'] does in the child, once the code is loaded
InputOutcomes == {Value(v) : v \in 0..MaxValue} \cup {Raises, Asserts, Loops}
\* what evaluating test['expected'] does
ExpectedOutcomes == {Value(v) : v \in 0..MaxValue} \cup {Raises}

TestCases == [input : InputOutcomes, expected : ExpectedOutcomes,
              hidden : {"true", "false", "absent"}]

\* what the candidate code does when the child executes it
Codes == [load : {"ok", "raise", "loop", "exit", "syntax"},
          out : {<<>>, PassLine, Debug},
          err : {<<>>, Warn},
          unlinks : BOOLEAN]

SetupCodes == {"ok", "raise"}

\* test.get('hidden', True)
Hidden_DefaultTrue(test) == test.hidden # "false"

\* test.get('hidden', False)
Hidden(test) == test.hidden = "true"

NoVerdict == [passed |-> FALSE, message |-> <<>>, hidden |-> FALSE]

NewCall == [infra |-> "none", timed_out |-> FALSE, compared |-> "none"]

----------------------------------------------------------------------------
(* Initial states *)

InitCommon ==
    /\ rt_pc = "loop"
    /\ i = 1
    /\ results = [all_passed |-> TRUE, test_results |-> <<>>]
    /\ rst_pc = "idle"
    /\ pending = NoVerdict
    /\ temp_path = 0
    /\ files = {}
    /\ created = 0
    /\ child_pc = "none"
    /\ stdout = <<>>
    /\ stderr = <<>>
    /\ cur = NewCall
    /\ log = <<>>

\* the other parts of the repository, when nothing is asked of them
WebAtRest ==
    /\ db_completed = <<>>
    /\ db_tokens = {}
    /\ db_user_repos = {}
    /\ db_users = <<>>
    /\ gh_codespaces = {}
    /\ gh_repos = {}
    /\ gh_calls = <<>>
    /\ now = 0
    /\ resp = <<>>

ListAtRest ==
    /\ ls_codespaces = {}
    /\ ls_problem_id = <<>>
    /\ ls_result = {}

ChatAtRest ==
    /\ chat_session = <<>>
    /\ chat_expected = <<>>
    /\ chat_resp = <<>>

ConcAtRest ==
    /\ cc_call = <<>>
    /\ cc_disk = <<>>
    /\ cc_created = 0
    /\ cc_log = <<>>

FmtAtRest ==
    /\ ft_tests = <<>>
    /\ ft_result = <<>>

UrlAtRest ==
    /\ du_url = <<>>
    /\ du_env = <<>>
    /\ du_result = <<>>

SubAtRest ==
    /\ sb_session = <<>>
    /\ sb_resp = <<>>
    /\ sb_runs = 0
    /\ sb_log = <<>>

RaceAtRest ==
    /\ rc_req = <<>>
    /\ rc_rows = <<>>

LaterAtRest == FmtAtRest /\ UrlAtRest /\ SubAtRest /\ RaceAtRest

\* one test case, any candidate code
Init ==
    /\ code \in Codes
    /\ setup_code \in SetupCodes
    /\ tests \in {<<t>> : t \in TestCases}
    /\ InitCommon
    /\ WebAtRest /\ ListAtRest /\ ChatAtRest /\ ConcAtRest /\ LaterAtRest

----------------------------------------------------------------------------
(* The child process: the file  setup_code / code / trailer  under python3 *)

\* the interpreter compiles the whole file before it runs any of it
ChildCompile ==
    /\ child_pc = "compile"
    /\ IF code.load = "syntax"
       THEN /\ stderr' = stderr \o SyntaxErrorText
            /\ child_pc' = "exited"
       ELSE /\ child_pc' = "setup"
            /\ UNCHANGED stderr
    /\ UNCHANGED <<webVars, listVars, chatVars, concVars, laterVars>>
    /\ UNCHANGED <<code, setup_code, tests, rt_pc, i, results, rst_pc, pending,
                   temp_path, files, created, stdout, cur, log>>

\* a file whose trailer comes right after the setup code
ChildSetup_ThenTrailer ==
    /\ child_pc = "setup"
    /\ child_pc' = "trailer"
    /\ UNCHANGED <<webVars, listVars, chatVars, concVars, laterVars>>
    /\ UNCHANGED <<code, setup_code, tests, rt_pc, i, results, rst_pc, pending,
                   temp_path, files, created, stdout, stderr, cur, log>>

\* {setup_code}
ChildSetup ==
    /\ child_pc = "setup"
    /\ IF setup_code = "raise"
       THEN /\ stderr' = stderr \o TracebackText
            /\ child_pc' = "exited"
       ELSE /\ child_pc' = "code"
            /\ UNCHANGED stderr
    /\ UNCHANGED <<webVars, listVars, chatVars, concVars, laterVars>>
    /\ UNCHANGED <<code, setup_code, tests, rt_pc, i, results, rst_pc, pending,
                   temp_path, files, created, stdout, cur, log>>

\* {code}: the candidate code may write to both channels, remove the file it
\* was started from (__file__), and then go on, raise, exit or never end
ChildCode ==
    /\ child_pc = "code"
    /\ files' = IF code.unlinks THEN files \ {temp_path} ELSE files
    /\ stdout' = stdout \o code.out
    /\ stderr' = stderr \o code.err \o
                 (IF code.load = "raise" THEN TracebackText ELSE <<>>)
    /\ child_pc' = CASE code.load = "ok" -> "trailer"
                     [] code.load = "loop" -> "looping"
                     [] OTHER -> "exited"
    /\ UNCHANGED <<webVars, listVars, chatVars, concVars, laterVars>>
    /\ UNCHANGED <<code, setup_code, tests, rt_pc, i, results, rst_pc, pending,
                   temp_path, created, cur, log>>

\* how the comparison of the trailer ends: "equal", "unequal", or "raised"
\* when one of the two expressions raised
Compared(test) ==
    IF test.input.kind # "value" \/ test.expected.kind # "value" THEN "raised"
    ELSE IF test.input.val = test.expected.val THEN "equal" ELSE "unequal"

\* the line the trailer prints
TrailerOutput(test) ==
    IF test.input.kind = "assert" THEN PrintLine(FailPrefix \o Inner)
    ELSE IF test.input.kind = "raise" THEN PrintLine(ErrorPrefix \o Boom)
    ELSE IF test.expected.kind = "raise" THEN PrintLine(ErrorPrefix \o Boom)
    ELSE IF test.input.val = test.expected.val THEN PrintLine(PASS)
    ELSE PrintLine(FailPrefix \o ExpectedWord \o Str(test.expected.val)
                   \o GotWord \o Str(test.input.val))

\* the trailer: evaluate both expressions, compare, print the marker
ChildTrailer ==
    /\ child_pc = "trailer"
    /\ IF tests[i].input.kind = "loop"
       THEN /\ child_pc' = "looping"
            /\ UNCHANGED <<stdout, cur>>
       ELSE /\ stdout' = stdout \o TrailerOutput(tests[i])
            /\ cur' = [cur EXCEPT !.compared = Compared(tests[i])]
            /\ child_pc' = "exited"
    /\ UNCHANGED <<webVars, listVars, chatVars, concVars, laterVars>>
    /\ UNCHANGED <<code, setup_code, tests, rt_pc, i, results, rst_pc, pending,
                   temp_path, files, created, stderr, log>>

----------------------------------------------------------------------------
(* run_single_test *)

\* except Exception as e: return {...}
ExceptionVerdict(msg, test) ==
    [passed |-> FALSE, message |-> msg, hidden |-> Hidden(test)]

\* the if / elif / else over the stripped output
Classify(output, error, test) ==
    IF StartsWith(output, PASS)
    THEN [passed |-> TRUE, message |-> MsgTestPassed, hidden |-> Hidden(test)]
    ELSE IF StartsWith(output, FAIL)
    THEN [passed |-> FALSE, message |-> output, hidden |-> Hidden(test)]
    ELSE [passed |-> FALSE, message |-> Or(error, Or(output, MsgUnknown)),
          hidden |-> Hidden(test)]

\* a handler that classifies what the killed child had written so far
TimeoutVerdict_Partial(out, err, test) == Classify(Strip(out), Strip(err), test)

\* except subprocess.TimeoutExpired: return {...}; out and err are what the
\* child had written when it was killed (e.stdout, e.stderr), which the
\* handler does not look at
TimeoutVerdict(out, err, test) ==
    [passed |-> FALSE, message |-> MsgTimeout, hidden |-> Hidden(test)]

\* tempfile.NamedTemporaryFile(mode='w', suffix='.py', delete=False)
CreateTemp ==
    /\ rst_pc = "create"
    /\ \/ /\ created' = created + 1
          /\ files' = files \cup {created + 1}
          /\ rst_pc' = "write"
          /\ UNCHANGED <<pending, cur>>
       \/ /\ pending' = ExceptionVerdict(MsgNoSpace, tests[i])
          /\ cur' = [cur EXCEPT !.infra = "create"]
          /\ rst_pc' = "finally"
          /\ UNCHANGED <<created, files>>
    /\ UNCHANGED <<webVars, listVars, chatVars, concVars, laterVars>>
    /\ UNCHANGED <<code, setup_code, tests, rt_pc, i, results, temp_path,
                   child_pc, stdout, stderr, log>>

\* f.write(full_code); temp_path = f.name; and the end of the with block
WriteTemp ==
    /\ rst_pc = "write"
    /\ \/ /\ temp_path' = created
          /\ rst_pc' = "spawn"
          /\ UNCHANGED <<pending, cur>>
       \/ \* f.write raises: temp_path is never bound
          /\ pending' = ExceptionVerdict(MsgEncode, tests[i])
          /\ cur' = [cur EXCEPT !.infra = "write"]
          /\ rst_pc' = "finally"
          /\ UNCHANGED temp_path
       \/ \* the flush on close raises: temp_path is bound
          /\ temp_path' = created
          /\ pending' = ExceptionVerdict(MsgNoSpace, tests[i])
          /\ cur' = [cur EXCEPT !.infra = "close"]
          /\ rst_pc' = "finally"
    /\ UNCHANGED <<webVars, listVars, chatVars, concVars, laterVars>>
    /\ UNCHANGED <<code, setup_code, tests, rt_pc, i, results, files, created,
                   child_pc, stdout, stderr, log>>

\* subprocess.run(['python3', temp_path], ...): starting the child
Spawn ==
    /\ rst_pc = "spawn"
    /\ \/ /\ child_pc' = "compile"
          /\ rst_pc' = "wait"
          /\ UNCHANGED <<pending, cur>>
       \/ /\ pending' = ExceptionVerdict(MsgNoPython, tests[i])
          /\ cur' = [cur EXCEPT !.infra = "spawn"]
          /\ rst_pc' = "finally"
          /\ UNCHANGED child_pc
    /\ UNCHANGED <<webVars, listVars, chatVars, concVars, laterVars>>
    /\ UNCHANGED <<code, setup_code, tests, rt_pc, i, results, temp_path,
                   files, created, stdout, stderr, log>>

\* subprocess.run returns: the child has exited by itself
WaitExit ==
    /\ rst_pc = "wait"
    /\ child_pc = "exited"
    /\ pending' = Classify(Strip(stdout), Strip(stderr), tests[i])
    /\ rst_pc' = "finally"
    /\ UNCHANGED <<webVars, listVars, chatVars, concVars, laterVars>>
    /\ UNCHANGED <<code, setup_code, tests, rt_pc, i, results, temp_path,
                   files, created, child_pc, stdout, stderr, cur, log>>

\* subprocess.run raises TimeoutExpired: the child is killed and waited for
Timeout ==
    /\ rst_pc = "wait"
    /\ child_pc # "exited"
    /\ child_pc' = "killed"
    /\ pending' = TimeoutVerdict(stdout, stderr, tests[i])
    /\ cur' = [cur EXCEPT !.timed_out = TRUE]
    /\ rst_pc' = "finally"
    /\ UNCHANGED <<webVars, listVars, chatVars, concVars, laterVars>>
    /\ UNCHANGED <<code, setup_code, tests, rt_pc, i, results, temp_path,
                   files, created, stdout, stderr, log>>

\* a finally clause that calls os.unlink without looking at locals()
UnlinkGuard_Always(path) == TRUE

\* does the finally clause call os.unlink: 'temp_path' in locals()
UnlinkGuard(path) == path # 0

LogEntry(how, verdict) ==
    [idx |-> i, ended |-> how, verdict |-> verdict, infra |-> cur.infra,
     timed_out |-> cur.timed_out, compared |-> cur.compared,
     child |-> child_pc, out |-> stdout, err |-> stderr]

\* finally: if 'temp_path' in locals(): os.unlink(temp_path)
Finally ==
    /\ rst_pc = "finally"
    /\ IF ~UnlinkGuard(temp_path)
       THEN /\ rst_pc' = "returned"
            /\ log' = Append(log, LogEntry("returned", pending))
            /\ UNCHANGED <<files, pending>>
       ELSE IF temp_path \in files
       THEN /\ files' = files \ {temp_path}
            /\ rst_pc' = "returned"
            /\ log' = Append(log, LogEntry("returned", pending))
            /\ UNCHANGED pending
       ELSE \* os.unlink raises FileNotFoundError, which replaces the return
            /\ rst_pc' = "raised"
            /\ pending' = NoVerdict
            /\ log' = Append(log, LogEntry("raised", NoVerdict))
            /\ UNCHANGED files
    /\ UNCHANGED <<webVars, listVars, chatVars, concVars, laterVars>>
    /\ UNCHANGED <<code, setup_code, tests, rt_pc, i, results, temp_path,
                   created, child_pc, stdout, stderr, cur>>

----------------------------------------------------------------------------
(* run_tests *)

\* results['test_results'].insert(0, test_result)
AppendResult_Front(test_results, test_result) == <<test_result>> \o test_results

\* results['test_results'].append(test_result)
AppendResult(test_results, test_result) == Append(test_results, test_result)

\* results['all_passed'] = test_result['passed']
UpdateAllPassed_Last(all_passed, test_result) == test_result.passed

\* if not test_result['passed']: results['all_passed'] = False
UpdateAllPassed(all_passed, test_result) ==
    IF ~test_result.passed THEN FALSE ELSE all_passed

\* a loop that breaks at the first test that did not pass
LoopContinues_Break(test_result) == test_result.passed

\* does the for loop go on to the next test after this result: the loop body
\* has no break and no return
LoopContinues(test_result) == TRUE

\* for i, test in enumerate(tests): test_result = run_single_test(...)
RunTestsLoop ==
    /\ rt_pc = "loop"
    /\ rst_pc = "idle"
    /\ i <= Len(tests)
    /\ rst_pc' = "create"
    /\ cur' = NewCall
    /\ UNCHANGED <<webVars, listVars, chatVars, concVars, laterVars>>
    /\ UNCHANGED <<code, setup_code, tests, rt_pc, i, results, pending,
                   temp_path, files, created, child_pc, stdout, stderr, log>>

\* the call returned: record the verdict and go round the loop
LoopAppend ==
    /\ rt_pc = "loop"
    /\ rst_pc = "returned"
    /\ results' = [all_passed |-> UpdateAllPassed(results.all_passed, pending),
                   test_results |-> AppendResult(results.test_results, pending)]
    /\ i' = IF LoopContinues(pending) THEN i + 1 ELSE Len(tests) + 1
    /\ rst_pc' = "idle"
    /\ pending' = NoVerdict
    /\ temp_path' = 0
    /\ child_pc' = "none"
    /\ stdout' = <<>>
    /\ stderr' = <<>>
    /\ UNCHANGED <<webVars, listVars, chatVars, concVars, laterVars>>
    /\ UNCHANGED <<code, setup_code, tests, rt_pc, files, created, cur, log>>

\* the call raised: nothing in run_tests catches it
LoopPropagate ==
    /\ rt_pc = "loop"
    /\ rst_pc = "raised"
    /\ rt_pc' = "raised"
    /\ UNCHANGED <<webVars, listVars, chatVars, concVars, laterVars>>
    /\ UNCHANGED <<code, setup_code, tests, i, results, rst_pc, pending,
                   temp_path, files, created, child_pc, stdout, stderr, cur,
                   log>>

\* return results
RunTestsReturn ==
    /\ rt_pc = "loop"
    /\ rst_pc = "idle"
    /\ i > Len(tests)
    /\ rt_pc' = "returned"
    /\ UNCHANGED <<webVars, listVars, chatVars, concVars, laterVars>>
    /\ UNCHANGED <<code, setup_code, tests, i, results, rst_pc, pending,
                   temp_path, files, created, child_pc, stdout, stderr, cur,
                   log>>

Next ==
    \/ RunTestsLoop
    \/ CreateTemp
    \/ WriteTemp
    \/ Spawn
    \/ ChildCompile
    \/ ChildSetup
    \/ ChildCode
    \/ ChildTrailer
    \/ WaitExit
    \/ Timeout
    \/ Finally
    \/ LoopAppend
    \/ LoopPropagate
    \/ RunTestsReturn

Spec == Init /\ [][Next]_vars

\* run_tests over lists of up to MaxTests test cases
SuiteCodes == {c \in Codes : c.load = "ok" /\ c.err = <<>>}

SuiteTests ==
    {t \in TestCases : /\ t.hidden = "false"
                       /\ t.expected = Value(1)
                       /\ t.input \in {Value(0), Value(1), Raises, Loops}}

InitSuite ==
    /\ code \in SuiteCodes
    /\ setup_code = "ok"
    /\ \E n \in 0..MaxTests : tests \in [1..n -> SuiteTests]
    /\ InitCommon
    /\ WebAtRest /\ ListAtRest /\ ChatAtRest /\ ConcAtRest /\ LaterAtRest

SpecSuite == InitSuite /\ [][Next]_vars

TypeOK ==
    /\ rt_pc \in {"loop", "returned", "raised"}
    /\ rst_pc \in {"idle", "create", "write", "spawn", "wait", "finally",
                   "returned", "raised"}
    /\ child_pc \in {"none", "compile", "setup", "code", "trailer", "looping",
                     "exited", "killed"}
    /\ i \in 1..(Len(tests) + 1)
    /\ temp_path \in 0..created
    /\ files \subseteq 1..created

----------------------------------------------------------------------------
(* Properties *)

Calls == 1..Len(log)

Returned(k) == log[k].ended = "returned"

\* C1: a call returns passed=True only if the trailer of its child compared
\* the two evaluated values and found them equal.
C1_PassedOnlyIfEqual ==
    \A k \in Calls :
        (Returned(k) /\ log[k].verdict.passed) => log[k].compared = "equal"

\* C2: when the child ran to its end in time and the two values compared
\* equal, the verdict returned is passed=True with the message 'Test passed',
\* whatever else the candidate code wrote to either channel.
C2_EqualGivesPassed ==
    \A k \in Calls :
        (Returned(k) /\ ~log[k].timed_out /\ log[k].compared = "equal")
            => (log[k].verdict.passed /\ log[k].verdict.message = MsgTestPassed)

\* C3: what run_tests returns has exactly one entry per test case, and entry
\* k is the verdict that the call for test case k returned.
C3_OneVerdictPerTestInOrder ==
    rt_pc = "returned" =>
        /\ Len(results.test_results) = Len(tests)
        /\ Len(log) = Len(tests)
        /\ \A k \in 1..Len(tests) :
              /\ log[k].idx = k
              /\ results.test_results[k] = log[k].verdict

C3_Witness ==
    /\ rt_pc = "returned"
    /\ Len(tests) >= 2
    /\ results.test_results[1] # results.test_results[2]

\* C4: what run_tests returns has all_passed true exactly when every entry of
\* test_results has passed true; for the empty test list it is true with an
\* empty test_results.
C4_AllPassedIffEveryPassed ==
    rt_pc = "returned" =>
        /\ results.all_passed <=>
              (\A k \in 1..Len(results.test_results) :
                    results.test_results[k].passed)
        /\ tests = <<>> =>
              (results.all_passed /\ results.test_results = <<>>)

C4_Witness ==
    /\ rt_pc = "returned"
    /\ Len(results.test_results) >= 2
    /\ ~results.test_results[1].passed
    /\ results.test_results[2].passed
    /\ ~results.all_passed

\* C5: the call for test case i starts only when the calls for test cases
\* 1..i-1, and no others, have returned, in that order; and run_tests returns
\* only after a call for every test case has returned, whatever the earlier
\* verdicts were.
C5_InOrderOneAtATimeNoEarlyStop ==
    /\ [][(rst_pc = "idle" /\ rst_pc' = "create") =>
            /\ Len(log) = i - 1
            /\ \A k \in Calls : log[k].idx = k /\ Returned(k)]_vars
    /\ [](rt_pc = "returned" =>
            /\ Len(log) = Len(tests)
            /\ \A k \in Calls : log[k].idx = k /\ Returned(k))

C5_Witness ==
    /\ rt_pc = "returned"
    /\ Len(log) >= 2
    /\ log[1].timed_out
    /\ ~log[1].verdict.passed
    /\ log[2].idx = 2

\* C6: a call whose child had not exited at the time limit returns
\* passed=False with exactly the timeout message, whatever the child had
\* written by then.
C6_TimeoutVerdict ==
    \A k \in Calls :
        (Returned(k) /\ log[k].timed_out)
            => (~log[k].verdict.passed /\ log[k].verdict.message = MsgTimeout)

C6_Witness ==
    \E k \in Calls :
        /\ Returned(k)
        /\ log[k].timed_out
        /\ StartsWith(Strip(log[k].out), PASS)
        /\ log[k].err # <<>>

\* C7: every call that has ended has returned a verdict, and when it ended
\* after a timeout its child has been killed.
C7_EveryCallReturnsVerdict ==
    \A k \in Calls :
        /\ Returned(k)
        /\ log[k].timed_out => log[k].child = "killed"

\* C8: whenever no call is in progress, no temporary file exists.
C8_NoTempFileLeft ==
    rst_pc \in {"idle", "returned", "raised"} => files = {}

InfraMessage(step) ==
    CASE step = "create" -> MsgNoSpace
      [] step = "write" -> MsgEncode
      [] step = "close" -> MsgNoSpace
      [] step = "spawn" -> MsgNoPython

C10_NeverRaisesForCandidate ==
    \A k \in Calls : log[k].infra = "none" => Returned(k)

\* the same test case without its hidden flag
PlainTest(test) == [test EXCEPT !.hidden = "false"]

\* the message the call gives for a test case, from what happened in the call
MessageFor(entry, test) ==
    IF entry.infra # "none"
    THEN ExceptionVerdict(InfraMessage(entry.infra), test).message
    ELSE IF entry.timed_out
    THEN TimeoutVerdict(entry.out, entry.err, test).message
    ELSE Classify(Strip(entry.out), Strip(entry.err), test).message

\* C12: on every return path the verdict's hidden field is the test case's
\* hidden flag (False when it has none), and the message is the one the same
\* call gives for the test case without the flag.
C12_HiddenCopiedNoRedaction ==
    \A k \in Calls :
        Returned(k) =>
            /\ log[k].verdict.hidden = (tests[log[k].idx].hidden = "true")
            /\ log[k].verdict.message =
                  MessageFor(log[k], PlainTest(tests[log[k].idx]))

C12_Witness ==
    \E k \in Calls :
        /\ Returned(k)
        /\ tests[log[k].idx].hidden = "true"
        /\ log[k].verdict.hidden
        /\ StartsWith(log[k].verdict.message, FailPrefix \o ExpectedWord)

\* the line the trailer prints for unequal values, without its newline
FailLine(test) ==
    FailPrefix \o ExpectedWord \o Str(test.expected.val)
               \o GotWord \o Str(test.input.val)

\* C13: when both expressions evaluated and the values compared unequal, the
\* call returns passed=False with the fail line, which carries the expected
\* and the actual value.
C13_UnequalGivesFailLine ==
    \A k \in Calls :
        (Returned(k) /\ ~log[k].timed_out /\ log[k].compared = "unequal")
            => /\ ~log[k].verdict.passed
               /\ log[k].verdict.message = FailLine(tests[log[k].idx])

\* the child of call k exited by itself and its output carries no marker
NoMarker(k) ==
    /\ Returned(k)
    /\ log[k].infra = "none"
    /\ ~log[k].timed_out
    /\ ~StartsWith(Strip(log[k].out), PASS)
    /\ ~StartsWith(Strip(log[k].out), FAIL)

\* C24: a call whose child exited by itself with an output that starts with
\* neither marker returns passed=False with the error text if there is one,
\* else the output text if there is one, else "Unknown error"; candidate code
\* with a syntax error gets a non-passing verdict with a non-empty message.
C24_NoMarkerMessage ==
    \A k \in Calls :
        /\ NoMarker(k) =>
            /\ ~log[k].verdict.passed
            /\ log[k].verdict.message =
                 IF Strip(log[k].err) # <<>> THEN Strip(log[k].err)
                 ELSE IF Strip(log[k].out) # <<>> THEN Strip(log[k].out)
                 ELSE MsgUnknown
        /\ (Returned(k) /\ code.load = "syntax") =>
            /\ ~log[k].verdict.passed
            /\ log[k].verdict.message # <<>>

C24_Witness ==
    \E k \in Calls :
        /\ NoMarker(k)
        /\ code.load = "syntax"
        /\ log[k].verdict.message = Strip(SyntaxErrorText)

\* C25: the child runs the setup code, then the candidate code, then the
\* trailer: the candidate code starts only from a setup code that ran to its
\* end, the trailer only from candidate code that ran to its end, and the
\* two expressions are evaluated only in the trailer.
C25_SetupThenCodeThenTrailer ==
    [][/\ (child_pc' = "code" /\ child_pc # "code")
            => (child_pc = "setup" /\ setup_code = "ok")
       /\ (child_pc' = "trailer" /\ child_pc # "trailer")
            => (child_pc = "code" /\ setup_code = "ok" /\ code.load = "ok")
       /\ (cur'.compared # "none" /\ cur.compared = "none")
            => child_pc = "trailer"]_vars

C25_Witness ==
    /\ cur.compared = "equal"
    /\ setup_code = "ok"
    /\ stdout = code.out \o PassLine
    /\ code.out = Debug

\* ---------------------------------------------------------------------
\* The FastAPI application: sessions, completion records, codespaces
\* ---------------------------------------------------------------------

\* how long the clock is followed, in token lifetimes
MaxTime == 2

\* timedelta(days=7): the clock counts in units of seven days
TokenLifetime == 1

max_retries == 10

Users == {1, 2}

WebProblems == {"p1", "p2"}

\* the rows of table problems with is_active
ActiveProblems == {"p1"}

TokenValues == {"t1"}

\* a token no codespace was ever given
UnknownToken == "t0"

\* the names GitHub gives to codespaces; "cs0" is one the user made on
\* github.com, not through the application
CodespaceNames == {"cs0", "cs1"}

\* secrets.token_hex(4)
Suffixes == {"0a"}

FullSession == {"access_token", "user_id", "user", "login"}

\* the keys a signed session can hold; "login" stands for a non-empty
\* session["user"]["login"]
SessionFields ==
    {{}, {"access_token"}, {"user_id"}, {"access_token", "user_id"},
     FullSession}

SessionData ==
    {[fields |-> f, uid |-> u] : f \in SessionFields, u \in Users \cup {0}}

\* what a request can carry as its session cookie: none, one whose
\* signature is wrong, one signed for a user, one signed over an hour ago
CookiesFor(users) ==
    {[kind |-> k, fields |-> {}, uid |-> 0] : k \in {"none", "bad"}}
    \cup {[kind |-> "valid", fields |-> d.fields, uid |-> d.uid] :
            d \in {x \in SessionData :
                     /\ (x.uid # 0) <=> ("user_id" \in x.fields)
                     /\ x.uid \in users \cup {0}}}
    \cup {[kind |-> "expired", fields |-> FullSession, uid |-> u] : u \in users}

Cookies == CookiesFor(Users)

NoCookie == [kind |-> "none", fields |-> {}, uid |-> 0]

EmptySession == [fields |-> {}, uid |-> 0]

get_session_data_NoExpiry(cookie) ==
    IF cookie.kind \in {"valid", "expired"}
    THEN [fields |-> cookie.fields, uid |-> cookie.uid]
    ELSE EmptySession

\* no cookie: {}; loads() raises BadSignature for a forged cookie and
\* SignatureExpired, a BadSignature, past max_age: {}
get_session_data(cookie) ==
    IF cookie.kind = "valid"
    THEN [fields |-> cookie.fields, uid |-> cookie.uid]
    ELSE EmptySession

\* not session or field not in session
Lacks(session, field) == session.fields = {} \/ field \notin session.fields

\* raise HTTPException(status_code=401, ...), with the cookie it answers
Refuse(endpoint, cookie, body) ==
    resp' = [endpoint |-> endpoint, cookie |-> cookie.kind,
             fields |-> cookie.fields, uid |-> 0, arg |-> "",
             status |-> 401, body |-> body]

\* any other answer, with the user and the argument the handler worked on
Answer(endpoint, cookie, uid, arg, status, body) ==
    resp' = [endpoint |-> endpoint, cookie |-> cookie.kind,
             fields |-> cookie.fields, uid |-> uid, arg |-> arg,
             status |-> status, body |-> body]

Pair(user_id, problem_id) == <<user_id, problem_id>>

Existing_AnyProblem(user_id, problem_id) ==
    \E p \in WebProblems : db_completed[Pair(user_id, p)] > 0

\* db.query(CompletedProblem).filter(user_id, problem_id).first()
Existing(user_id, problem_id) == db_completed[Pair(user_id, problem_id)] > 0

\* db.add(CompletedProblem(user_id, problem_id)); db.commit()
AddCompletion(user_id, problem_id) ==
    [db_completed EXCEPT ![Pair(user_id, problem_id)] = @ + 1]

DeleteCompletions_AllOfUser(user_id, problem_id) ==
    [q \in DOMAIN db_completed |->
        IF q[1] = user_id THEN 0 ELSE db_completed[q]]

\* db.query(CompletedProblem).filter(user_id, problem_id).delete()
DeleteCompletions(user_id, problem_id) ==
    [db_completed EXCEPT ![Pair(user_id, problem_id)] = 0]

Expired_Never(time, expires_at) == FALSE

\* now > expires_at
Expired(time, expires_at) == time > expires_at

InitWeb ==
    /\ db_completed = [q \in Users \X WebProblems |-> 0]
    /\ db_tokens = {}
    /\ db_user_repos = {}
    /\ db_users = [u \in Users |-> FALSE]
    /\ gh_codespaces = {[name |-> "cs0", owner |-> 1]}
    /\ gh_repos = {}
    /\ gh_calls = <<>>
    /\ now = 0
    /\ resp = [endpoint |-> "none", cookie |-> "none", fields |-> {},
               uid |-> 0, arg |-> "", status |-> 0, body |-> ""]

\* POST /problems/{problem_id}/complete
MarkComplete(cookie, problem_id) ==
    LET session == get_session_data(cookie) IN
    /\ gh_calls' = <<>>
    /\ UNCHANGED <<db_tokens, db_user_repos, db_users, gh_codespaces,
                   gh_repos, now>>
    /\ IF Lacks(session, "user_id")
       THEN /\ Refuse("mark_complete", cookie, "Not authenticated")
            /\ UNCHANGED db_completed
       ELSE IF Existing(session.uid, problem_id)
       THEN /\ Answer("mark_complete", cookie, session.uid, problem_id, 200,
                      "already_completed")
            /\ UNCHANGED db_completed
       ELSE /\ db_completed' = AddCompletion(session.uid, problem_id)
            /\ Answer("mark_complete", cookie, session.uid, problem_id, 200, "completed")

\* DELETE /problems/{problem_id}/complete
UnmarkComplete(cookie, problem_id) ==
    LET session == get_session_data(cookie) IN
    /\ gh_calls' = <<>>
    /\ UNCHANGED <<db_tokens, db_user_repos, db_users, gh_codespaces,
                   gh_repos, now>>
    /\ IF Lacks(session, "user_id")
       THEN /\ Refuse("unmark_complete", cookie, "Not authenticated")
            /\ UNCHANGED db_completed
       ELSE /\ db_completed' = DeleteCompletions(session.uid, problem_id)
            /\ Answer("unmark_complete", cookie, session.uid, problem_id, 200, "removed")

\* PUT /user/preferences/hide-completed
UpdateHideCompleted(cookie, hide_completed) ==
    LET session == get_session_data(cookie) IN
    /\ gh_calls' = <<>>
    /\ UNCHANGED <<db_completed, db_tokens, db_user_repos, gh_codespaces,
                   gh_repos, now>>
    /\ IF Lacks(session, "user_id")
       THEN /\ Refuse("update_hide_completed", cookie, "Not authenticated")
            /\ UNCHANGED db_users
       ELSE /\ db_users' =
                  IF session.uid \in DOMAIN db_users
                  THEN [db_users EXCEPT ![session.uid] = hide_completed]
                  ELSE db_users
            /\ Answer("update_hide_completed", cookie, session.uid, "", 200, "updated")

\* POST /api/complete
CompleteWithToken(token) ==
    /\ gh_calls' = <<>>
    /\ UNCHANGED <<db_user_repos, db_users, gh_codespaces, gh_repos, now>>
    /\ IF ~ \E r \in db_tokens : r.token = token
       THEN /\ Answer("complete_with_token", NoCookie, 0, token, 401, "Invalid token")
            /\ UNCHANGED <<db_completed, db_tokens>>
       ELSE LET token_record == CHOOSE r \in db_tokens : r.token = token IN
            IF Expired(now, token_record.expires_at)
            THEN /\ Answer("complete_with_token", NoCookie, 0, token, 401, "Token has expired")
                 /\ UNCHANGED <<db_completed, db_tokens>>
            ELSE IF Existing(token_record.user_id, token_record.problem_id)
            THEN /\ Answer("complete_with_token", NoCookie,
                           token_record.user_id, token, 200, "already_completed")
                 /\ UNCHANGED <<db_completed, db_tokens>>
            ELSE /\ db_completed' = AddCompletion(token_record.user_id,
                                                  token_record.problem_id)
                 /\ db_tokens' = (db_tokens \ {token_record})
                        \cup {[token_record EXCEPT !.used = TRUE]}
                 /\ Answer("complete_with_token", NoCookie,
                           token_record.user_id, token, 200, "completed")

\* time passes
Tick ==
    /\ now < MaxTime
    /\ now' = now + 1
    /\ UNCHANGED <<db_completed, db_tokens, db_user_repos, db_users,
                   gh_codespaces, gh_repos, gh_calls, resp>>

\* one call to api.github.com and the status it answered; "exc" is the
\* call raising instead of answering (httpx.RequestError, or .json() on
\* a body that is not JSON)
Call(op, target, result) == [op |-> op, target |-> target, result |-> result]

RepoName(problem_id, suffix) == <<problem_id, suffix>>

\* the repository is gone after a DELETE answered 204
ReposAfterDelete(name, result) ==
    IF result = "204" THEN {r \in gh_repos : r.name # name} ELSE gh_repos

\* DELETE /repos/{owner}/{repo} as GitHub can answer it
DeleteRepoResults(name) ==
    (IF \E r \in gh_repos : r.name = name THEN {"204"} ELSE {"404"})
        \cup {"403", "exc"}

\* DELETE /user/codespaces/{name} as GitHub can answer it
DeleteCodespaceResults(user_id, codespace_name) ==
    (IF [name |-> codespace_name, owner |-> user_id] \in gh_codespaces
     THEN {"202"} ELSE {"404"})
        \cup {"403", "exc"}

\* delete_codespace: 202 returns True, anything else raises
DeleteCodespaceStatus(result) ==
    CASE result = "404" -> 404
      [] result = "403" -> 403
      [] OTHER -> 500

TrackingRecords(codespace_name) ==
    {r \in db_user_repos : r.codespace_name = codespace_name}

\* DELETE /codespaces/{codespace_name}
DeleteCodespaceEndpoint(cookie, codespace_name) ==
    LET session == get_session_data(cookie)
        target == <<codespace_name>>
    IN
    /\ UNCHANGED <<db_completed, db_tokens, db_users, now>>
    /\ IF Lacks(session, "access_token")
       THEN /\ Refuse("delete_codespace", cookie, "Not authenticated")
            /\ gh_calls' = <<>>
            /\ UNCHANGED <<db_user_repos, gh_codespaces, gh_repos>>
       ELSE \E cs \in DeleteCodespaceResults(session.uid, codespace_name) :
            IF cs # "202"
            THEN /\ Answer("delete_codespace", cookie, session.uid, codespace_name,
                           DeleteCodespaceStatus(cs), "error")
                 /\ gh_calls' = <<Call("delete_codespace", target, cs)>>
                 /\ UNCHANGED <<db_user_repos, gh_codespaces, gh_repos>>
            ELSE
            /\ gh_codespaces' =
                   {c \in gh_codespaces : c.name # codespace_name}
            /\ IF TrackingRecords(codespace_name) = {}
               THEN /\ Answer("delete_codespace", cookie, session.uid, codespace_name,
                              200, "deleted, repo_deleted: false")
                    /\ gh_calls' = <<Call("delete_codespace", target, cs)>>
                    /\ UNCHANGED <<db_user_repos, gh_repos>>
               ELSE LET user_repo ==
                            CHOOSE r \in TrackingRecords(codespace_name) : TRUE
                    IN
                    \E rp \in DeleteRepoResults(user_repo.repo_name) :
                    /\ gh_calls' =
                         <<Call("delete_codespace", target, cs),
                           Call("delete_repo", user_repo.repo_name, rp)>>
                    /\ gh_repos' = ReposAfterDelete(user_repo.repo_name, rp)
                    /\ IF rp = "exc"
                       THEN \* not an HTTPException: the handler ends here
                            /\ Answer("delete_codespace", cookie, session.uid,
                                      codespace_name, 500, "error")
                            /\ UNCHANGED db_user_repos
                       ELSE /\ db_user_repos' = db_user_repos \ {user_repo}
                            /\ Answer("delete_codespace", cookie, session.uid,
                                      codespace_name, 200,
                                      "deleted, repo_deleted: true")

FreshTokens == TokenValues \ {r.token : r \in db_tokens}

\* the names GitHub has not given to a codespace yet
FreshCodespaceNames ==
    CodespaceNames \ ({c.name : c \in gh_codespaces}
                      \cup {r.codespace_name : r \in db_tokens})

\* POST /repos/{template}/generate as GitHub can answer it
GenerateResults(name) ==
    (IF \E r \in gh_repos : r.name = name THEN {"422"} ELSE {"201"})
        \cup {"404", "exc"}

\* a row that is given a token of its own
CodespaceToken_OwnToken(token, user_id, problem_id, codespace_name) ==
    [token |-> UnknownToken, user_id |-> user_id, problem_id |-> problem_id,
     codespace_name |-> codespace_name, expires_at |-> now + TokenLifetime,
     used |-> FALSE]

\* CodespaceToken(token=completion_token, ..., expires_at=token_expires_at)
CodespaceToken(token, user_id, problem_id, codespace_name) ==
    [token |-> token, user_id |-> user_id, problem_id |-> problem_id,
     codespace_name |-> codespace_name, expires_at |-> now + TokenLifetime,
     used |-> FALSE]

\* a poll that makes one check more
Polls_OneMore(name, n, last) ==
    [k \in 1..(n + 1) |-> Call("get_branch", name,
                               IF k = n + 1 THEN last ELSE "404")]

\* the poll for the branch: n GETs, all answered 404 but the last
Polls(name, n, last) ==
    [k \in 1..n |-> Call("get_branch", name, IF k = n THEN last ELSE "404")]

\* create_codespace once the repository exists: the poll for the branch,
\* the config file, the machines, the codespace, the two rows
CreateFromRepo(cookie, session, problem_id, name) ==
    LET made == gh_repos \cup {[name |-> name, config |-> "none"]}
        generate == Call("generate", name, "201")
    IN
    \/ \* the branch never answers 200: the repository is cleaned up
       \E del \in {"204", "403"} :
       /\ gh_calls' = <<generate>> \o Polls(name, max_retries, "404")
                        \o <<Call("delete_repo", name, del)>>
       /\ gh_repos' = IF del = "204" THEN gh_repos ELSE made
       /\ Answer("create_codespace", cookie, session.uid, problem_id, 500, "error")
       /\ UNCHANGED <<db_tokens, db_user_repos, gh_codespaces>>
    \/ \* a later call raises: caught by the endpoint as an Exception
       /\ gh_calls' = <<generate>> \o Polls(name, 1, "exc")
       /\ gh_repos' = made
       /\ Answer("create_codespace", cookie, session.uid, problem_id, 500, "error")
       /\ UNCHANGED <<db_tokens, db_user_repos, gh_codespaces>>
    \/ \E completion_token \in FreshTokens, config \in {"201", "422"},
          attempts \in 1..max_retries :
       LET written == IF config = "201" THEN completion_token ELSE "none"
           ready == gh_repos \cup {[name |-> name, config |-> written]}
           calls == <<generate>> \o Polls(name, attempts, "200")
                      \o <<Call("put_config", name, config),
                           Call("get_machines", name, "200")>>
       IN
       \/ \* the codespace is refused: the repository is cleaned up
          \E del \in {"204", "403"} :
          /\ gh_calls' = calls \o <<Call("create_codespace", name, "422"),
                                    Call("delete_repo", name, del)>>
          /\ gh_repos' = IF del = "204" THEN gh_repos ELSE ready
          /\ Answer("create_codespace", cookie, session.uid, problem_id, 500, "error")
          /\ UNCHANGED <<db_tokens, db_user_repos, gh_codespaces>>
       \/ \E codespace \in FreshCodespaceNames :
          /\ gh_calls' = calls \o <<Call("create_codespace", name, "201")>>
          /\ gh_repos' = ready
          /\ gh_codespaces' = gh_codespaces
                \cup {[name |-> codespace, owner |-> session.uid]}
          /\ db_tokens' = db_tokens \cup
                {CodespaceToken(completion_token, session.uid, problem_id,
                                codespace)}
          /\ db_user_repos' = db_user_repos \cup
                {[user_id |-> session.uid, repo_name |-> name,
                  codespace_name |-> codespace, problem_id |-> problem_id]}
          /\ Answer("create_codespace", cookie, session.uid, problem_id, 200, codespace)

\* POST /codespaces/create
CreateCodespaceEndpoint(cookie, problem_id) ==
    LET session == get_session_data(cookie) IN
    /\ UNCHANGED <<db_completed, db_users, now>>
    /\ IF \/ Lacks(session, "access_token")
          \/ "user_id" \notin session.fields
          \/ "user" \notin session.fields
          \/ "login" \notin session.fields
       THEN /\ Refuse("create_codespace", cookie, "Not authenticated")
            /\ gh_calls' = <<>>
            /\ UNCHANGED <<db_tokens, db_user_repos, gh_codespaces, gh_repos>>
       ELSE IF problem_id \notin ActiveProblems
       THEN /\ Answer("create_codespace", cookie, session.uid, problem_id, 404,
                      "Problem not found")
            /\ gh_calls' = <<>>
            /\ UNCHANGED <<db_tokens, db_user_repos, gh_codespaces, gh_repos>>
       ELSE \E unique_suffix \in Suffixes :
            LET name == RepoName(problem_id, unique_suffix) IN
            \E gen \in GenerateResults(name) :
            IF gen # "201"
            THEN /\ Answer("create_codespace", cookie, session.uid, problem_id, 500,
                           "error")
                 /\ gh_calls' = <<Call("generate", name, gen)>>
                 /\ UNCHANGED <<db_tokens, db_user_repos, gh_codespaces,
                                gh_repos>>
            ELSE CreateFromRepo(cookie, session, problem_id, name)

nonWeb == <<judgeVars, listVars, chatVars, concVars, laterVars>>

NextWeb ==
    \/ \E cookie \in CookiesFor({1}), p \in ActiveProblems :
            MarkComplete(cookie, p) /\ UNCHANGED nonWeb
    \/ \E cookie \in CookiesFor({1}), p \in ActiveProblems :
            UnmarkComplete(cookie, p) /\ UNCHANGED nonWeb
    \/ \E cookie \in CookiesFor({1}), h \in BOOLEAN :
            UpdateHideCompleted(cookie, h) /\ UNCHANGED nonWeb
    \/ \E t \in TokenValues \cup {UnknownToken} :
            CompleteWithToken(t) /\ UNCHANGED nonWeb
    \/ \E cookie \in CookiesFor({1}), p \in WebProblems :
            CreateCodespaceEndpoint(cookie, p) /\ UNCHANGED nonWeb
    \/ \E cookie \in CookiesFor({1}), c \in CodespaceNames :
            DeleteCodespaceEndpoint(cookie, c) /\ UNCHANGED nonWeb
    \/ Tick /\ UNCHANGED nonWeb

\* the judge at rest while the FastAPI application is followed
JudgeAtRest ==
    /\ code = [load |-> "ok", out |-> <<>>, err |-> <<>>, unlinks |-> FALSE]
    /\ setup_code = "ok"
    /\ tests = <<>>
    /\ InitCommon

InitWebSpec ==
    /\ InitWeb
    /\ JudgeAtRest /\ ListAtRest /\ ChatAtRest /\ ConcAtRest /\ LaterAtRest

SpecWeb == InitWebSpec /\ [][NextWeb]_vars

\* the tables and GitHub after user u created a codespace for problem p
\* at time 0 (the state CreateCodespaceEndpoint leaves when all goes well)
AfterCreate(u, p) ==
    /\ db_completed = [q \in Users \X WebProblems |-> 0]
    /\ db_tokens = {[token |-> "t1", user_id |-> u, problem_id |-> p,
                     codespace_name |-> "cs1",
                     expires_at |-> TokenLifetime, used |-> FALSE]}
    /\ db_user_repos = {[user_id |-> u, repo_name |-> RepoName(p, "0a"),
                         codespace_name |-> "cs1", problem_id |-> p]}
    /\ db_users = [x \in Users |-> FALSE]
    /\ gh_codespaces = {[name |-> "cs1", owner |-> u]}
    /\ gh_repos = {[name |-> RepoName(p, "0a"), config |-> "t1"]}
    /\ gh_calls = <<>>
    /\ now = 0
    /\ resp = [endpoint |-> "none", cookie |-> "none", fields |-> {},
               uid |-> 0, arg |-> "", status |-> 0, body |-> ""]

InitCompletion ==
    /\ \E u \in Users, p \in ActiveProblems : AfterCreate(u, p)
    /\ JudgeAtRest /\ ListAtRest /\ ChatAtRest /\ ConcAtRest /\ LaterAtRest

\* the completion requests of both users, one after another
NextCompletion ==
    \/ \E cookie \in Cookies, p \in WebProblems :
            MarkComplete(cookie, p) /\ UNCHANGED nonWeb
    \/ \E cookie \in Cookies, p \in WebProblems :
            UnmarkComplete(cookie, p) /\ UNCHANGED nonWeb
    \/ \E t \in TokenValues \cup {UnknownToken} :
            CompleteWithToken(t) /\ UNCHANGED nonWeb
    \/ Tick /\ UNCHANGED nonWeb

SpecCompletion == InitCompletion /\ [][NextCompletion]_vars

----------------------------------------------------------------------------
\* Properties of the FastAPI application

\* the answered request carried no session, or one without the field
Unauthenticated(r, field) ==
    \/ r.cookie \in {"none", "bad", "expired"}
    \/ field \notin r.fields

\* the step answered 401, changed no table and called GitHub not once
RefusedUntouched ==
    /\ resp'.status = 401
    /\ UNCHANGED <<db_completed, db_tokens, db_user_repos, db_users>>
    /\ gh_calls' = <<>>
    /\ UNCHANGED <<gh_codespaces, gh_repos>>

\* C14: each of the five state-changing endpoints answers 401, changes
\* no table and makes no GitHub call when the request has no cookie, a
\* forged or expired cookie, or a session without the field it requires
\* (access_token for the codespace endpoints, user_id for the others).
C14_UnauthenticatedRefused ==
    [][(now' = now) =>
        /\ ( /\ resp'.endpoint \in {"mark_complete", "unmark_complete",
                                    "update_hide_completed"}
             /\ Unauthenticated(resp', "user_id") ) => RefusedUntouched
        /\ ( /\ resp'.endpoint \in {"create_codespace", "delete_codespace"}
             /\ Unauthenticated(resp', "access_token") ) => RefusedUntouched
      ]_vars

\* a session without access_token was refused by the delete endpoint
\* while a codespace and its rows were there to be deleted
C14_Witness ==
    /\ resp.endpoint = "delete_codespace"
    /\ resp.status = 401
    /\ resp.cookie = "valid"
    /\ resp.fields = {"user_id"}
    /\ db_user_repos # {}
    /\ \E c \in gh_codespaces : c.name = "cs1"

\* the step answered a request to the endpoint, past its session check
Handled(endpoint) ==
    /\ now' = now
    /\ resp'.endpoint = endpoint
    /\ resp'.status # 401

\* C15: mark_complete of an authenticated user adds exactly one row and
\* answers 'completed' when the pair has none, answers
\* 'already_completed' and adds nothing when it has one; with requests
\* handled one after another no pair ever has more than one row.
C15_MarkCompleteAtMostOnce ==
    /\ [][Handled("mark_complete") =>
            LET q == Pair(resp'.uid, resp'.arg) IN
            IF db_completed[q] = 0
            THEN /\ resp'.body = "completed"
                 /\ db_completed' = [db_completed EXCEPT ![q] = 1]
            ELSE /\ resp'.body = "already_completed"
                 /\ db_completed' = db_completed
         ]_vars
    /\ [](\A q \in Users \X WebProblems : db_completed[q] <= 1)

\* a mark_complete found the row that complete_with_token had added
C15_Witness ==
    /\ resp.endpoint = "mark_complete"
    /\ resp.body = "already_completed"
    /\ db_completed[Pair(resp.uid, resp.arg)] = 1
    /\ \E r \in db_tokens :
          r.used /\ r.user_id = resp.uid /\ r.problem_id = resp.arg

\* C16: unmark_complete removes every row of the pair and answers
\* 'removed', also when there was none; the rows of other users and of
\* other problems stay, and a mark_complete that follows answers
\* 'completed' again.
C16_UnmarkRemovesPairOnly ==
    [][/\ Handled("unmark_complete") =>
            /\ resp'.body = "removed"
            /\ db_completed' =
                  [db_completed EXCEPT ![Pair(resp'.uid, resp'.arg)] = 0]
       /\ ( /\ Handled("mark_complete")
            /\ resp.endpoint = "unmark_complete"
            /\ resp.status = 200
            /\ resp'.uid = resp.uid
            /\ resp'.arg = resp.arg ) => resp'.body = "completed"
      ]_vars

\* an unmark_complete left the pair without a row and another user's row
\* and another problem's row in place
C16_Witness ==
    /\ resp.endpoint = "unmark_complete"
    /\ resp.body = "removed"
    /\ db_completed[Pair(resp.uid, resp.arg)] = 0
    /\ \E u \in Users \ {resp.uid} : db_completed[Pair(u, resp.arg)] = 1
    /\ \E p \in WebProblems \ {resp.arg} : db_completed[Pair(resp.uid, p)] = 1

\* C17: complete_with_token adds a row only for the user and the problem
\* stored with the presented token and only when the token exists and
\* has not expired; an unknown or expired token answers 401 and changes
\* no row.
C17_TokenCompletesOnlyItsPair ==
    [][(now' = now /\ resp'.endpoint = "complete_with_token") =>
        LET rows == {r \in db_tokens : r.token = resp'.arg} IN
        IF rows = {} \/ \E r \in rows : now > r.expires_at
        THEN /\ resp'.status = 401
             /\ UNCHANGED <<db_completed, db_tokens>>
        ELSE /\ resp'.status = 200
             /\ \A q \in Users \X WebProblems :
                   db_completed'[q] # db_completed[q] =>
                      \E r \in rows : q = Pair(r.user_id, r.problem_id)
      ]_vars

\* a token was presented after its lifetime and refused, its user's
\* problem still not completed
C17_Witness ==
    /\ resp.endpoint = "complete_with_token"
    /\ resp.status = 401
    /\ \E r \in db_tokens :
          /\ r.token = resp.arg
          /\ now > r.expires_at
          /\ db_completed[Pair(r.user_id, r.problem_id)] = 0

\* C18: delete_codespace_endpoint deletes the codespace first; when that
\* fails no repository deletion is made and the tracking row stays; when
\* it succeeds and a tracking row exists for the name, a repository
\* deletion is attempted and the row is removed whether or not that
\* deletion succeeded; repo_deleted is true exactly when a row existed.
C18_DeleteOrderAndRecord ==
    [][Handled("delete_codespace") =>
        LET name == resp'.arg
            tracked == TrackingRecords(name) # {}
            repo_calls == {k \in DOMAIN gh_calls' :
                             gh_calls'[k].op = "delete_repo"}
        IN
        /\ gh_calls'[1].op = "delete_codespace"
        /\ gh_calls'[1].result # "202" =>
              /\ repo_calls = {}
              /\ UNCHANGED <<db_user_repos, gh_repos>>
        /\ (gh_calls'[1].result = "202" /\ tracked) =>
              /\ repo_calls = {2}
              /\ \A r \in db_user_repos' : r.codespace_name # name
        /\ resp'.status = 200 =>
              (resp'.body = "deleted, repo_deleted: true" <=> tracked)
      ]_vars

\* the step answered a create request for which GitHub created the
\* repository from the template
RepoCreated ==
    /\ Handled("create_codespace")
    /\ gh_calls' # <<>>
    /\ gh_calls'[1].op = "generate"
    /\ gh_calls'[1].result = "201"

\* the calls of the answered request with the given operation
CallsOf(op) == {k \in DOMAIN gh_calls' : gh_calls'[k].op = op}

\* the rows the step added
NewTokens == db_tokens' \ db_tokens

NewUserRepos == db_user_repos' \ db_user_repos

\* the request ended with GitHub answering 201 to the codespace creation
CodespaceCreated ==
    \E k \in CallsOf("create_codespace") : gh_calls'[k].result = "201"

\* the two rows are added together, only after the 201, one of each, for the
\* repository and the codespace of the request
RowsOnlyAfter201 ==
    IF CodespaceCreated
    THEN /\ gh_calls'[Len(gh_calls')].op = "create_codespace"
         /\ \E t \in NewTokens, r \in NewUserRepos :
               /\ NewTokens = {t}
               /\ NewUserRepos = {r}
               /\ t.codespace_name = r.codespace_name
               /\ t.user_id = resp'.uid /\ r.user_id = resp'.uid
               /\ t.problem_id = resp'.arg /\ r.problem_id = resp'.arg
               /\ r.repo_name = gh_calls'[1].target
    ELSE /\ resp'.status # 200
         /\ UNCHANGED <<db_tokens, db_user_repos>>

\* C26: create_codespace adds the token row and the tracking row only after
\* GitHub answered 201 to the codespace creation, both together; a failing
\* request adds neither; and the stored token is the one the repository's
\* .llmeetcode-config holds, written before the codespace was requested.
C26_RowsAfter201TokenInConfig ==
    [][Handled("create_codespace") =>
        /\ RowsOnlyAfter201
        /\ \A t \in NewTokens : \E repo \in gh_repos' :
              /\ repo.name = gh_calls'[1].target
              /\ repo.config = t.token
              /\ \E k \in CallsOf("put_config"), c \in CallsOf("create_codespace") :
                    k < c
      ]_vars

\* C26 as the code has it: the rows as above; the stored token is the one
\* sent for .llmeetcode-config before the codespace was requested, and the
\* repository holds it exactly when GitHub accepted that write; when the
\* write was refused the creation goes on and the repository holds no token.
C26_RowsAfter201TokenSent ==
    [][Handled("create_codespace") =>
        /\ RowsOnlyAfter201
        /\ \A t \in NewTokens : \E repo \in gh_repos' :
              /\ repo.name = gh_calls'[1].target
              /\ \E k \in CallsOf("put_config"), c \in CallsOf("create_codespace") :
                    /\ k < c
                    /\ repo.config =
                         IF gh_calls'[k].result = "201" THEN t.token ELSE "none"
      ]_vars

\* a codespace was created although the write of the config was refused
C26_Witness ==
    /\ resp.endpoint = "create_codespace"
    /\ resp.status = 200
    /\ \E k \in DOMAIN gh_calls :
          gh_calls[k].op = "put_config" /\ gh_calls[k].result = "422"
    /\ \E t \in db_tokens, repo \in gh_repos :
          /\ t.codespace_name = resp.body
          /\ repo.config = "none"

\* C27: a create request that ends with an error after the repository was
\* created has issued a delete request for it, and the repository is gone.
C27_FailedCreateDeletesRepo ==
    [][(RepoCreated /\ resp'.status # 200) =>
        /\ \E k \in CallsOf("delete_repo") :
              gh_calls'[k].target = gh_calls'[1].target
        /\ gh_repos' = gh_repos
      ]_vars

MaxListed == 2

\* "llmeetcode-"
Prefix == <<"l", "l", "m", "e", "e", "t", "c", "o", "d", "e", "-">>

\* problem ids: empty, plain, with hyphens inside and at either end
ProblemIds ==
    {<<>>, <<"a">>, <<"a", "-", "b">>, <<"a", "-">>, <<"-", "a">>}

\* secrets.token_hex(4): hexadecimal digits, never a hyphen
HexSuffixes == {<<"0", "f">>}

\* problem_id: str | None = None
None == <<"None">>

\* f"llmeetcode-{problem_id}-{unique_suffix}"
DisplayName(problem_id, unique_suffix) ==
    Prefix \o problem_id \o <<"-">> \o unique_suffix

\* display names of codespaces made elsewhere: none at all, another
\* name, the bare word, the prefix with a single part behind it
OtherNames ==
    {<<>>, <<"o", "-", "x">>,
     <<"l", "l", "m", "e", "e", "t", "c", "o", "d", "e">>,
     Prefix \o <<"a">>}

DisplayNames ==
    {DisplayName(p, x) : p \in ProblemIds, x \in HexSuffixes}
        \cup OtherNames

\* what GitHub lists of one codespace: its display name and
\* last_used_at or created_at
Listed == [display_name : DisplayNames, used : {0, 1}]

RECURSIVE SplitDash(_)
\* display_name.split("-")
SplitDash(s) ==
    IF s = <<>> THEN << <<>> >>
    ELSE LET rest == SplitDash(Tail(s)) IN
         IF Head(s) = "-"
         THEN << <<>> >> \o rest
         ELSE << <<Head(s)>> \o rest[1] >> \o Tail(rest)

RECURSIVE JoinDash(_)
\* "-".join(parts)
JoinDash(parts) ==
    IF parts = <<>> THEN <<>>
    ELSE IF Len(parts) = 1 THEN parts[1]
    ELSE parts[1] \o <<"-">> \o JoinDash(Tail(parts))

ExtractProblemId_Second(display_name) ==
    LET parts == SplitDash(display_name) IN
    IF Len(parts) > 2 THEN parts[2] ELSE <<>>

\* "-".join(parts[1:-1]) if len(parts) > 2 else ""
ExtractProblemId(display_name) ==
    LET parts == SplitDash(display_name) IN
    IF Len(parts) > 2
    THEN JoinDash(SubSeq(parts, 2, Len(parts) - 1))
    ELSE <<>>

\* the truth value Python gives problem_id in 'if problem_id and ...'
Truthy(problem_id) == problem_id # None /\ problem_id # <<>>

\* the loop body's two 'continue' tests
Kept(display_name, problem_id) ==
    /\ StartsWith(display_name, Prefix)
    /\ ~(Truthy(problem_id) /\ ExtractProblemId(display_name) # problem_id)

RECURSIVE Collect(_, _, _)
\* the for loop over codespaces, from position k on
Collect(codespaces, problem_id, k) ==
    IF k > Len(codespaces) THEN <<>>
    ELSE LET cs == codespaces[k] IN
         (IF Kept(cs.display_name, problem_id)
          THEN <<[name |-> k, display_name |-> cs.display_name,
                  problem_id |-> ExtractProblemId(cs.display_name),
                  used |-> cs.used]>>
          ELSE <<>>)
         \o Collect(codespaces, problem_id, k + 1)

RECURSIVE SortDesc(_)
\* list.sort(key=..., reverse=True): stable, latest first
SortDesc(list) ==
    IF list = <<>> THEN <<>>
    ELSE LET top == CHOOSE k \in DOMAIN list :
                        /\ \A j \in DOMAIN list : list[j].used <= list[k].used
                        /\ \A j \in 1..(k - 1) : list[j].used < list[k].used
         IN <<list[top]>> \o
            SortDesc(SubSeq(list, 1, top - 1)
                     \o SubSeq(list, top + 1, Len(list)))

InitList ==
    /\ \E n \in 0..MaxListed : ls_codespaces \in [1..n -> Listed]
    /\ ls_problem_id \in ProblemIds \cup {None}
    /\ ls_result = [state |-> "not called", list |-> <<>>]
    /\ JudgeAtRest /\ WebAtRest /\ ChatAtRest /\ ConcAtRest /\ LaterAtRest

\* list_user_codespaces(access_token, problem_id)
ListUserCodespaces ==
    /\ ls_result.state = "not called"
    /\ \E status_code \in {200, 401} :
          ls_result' =
             IF status_code # 200
             THEN [state |-> "raised", list |-> <<>>]
             ELSE [state |-> "returned",
                   list |-> SortDesc(Collect(ls_codespaces,
                                             ls_problem_id, 1))]
    /\ UNCHANGED <<ls_codespaces, ls_problem_id>>
    /\ UNCHANGED <<judgeVars, webVars, chatVars, concVars, laterVars>>

NextList == ListUserCodespaces

SpecList == InitList /\ [][NextList]_vars

----------------------------------------------------------------------------
\* Properties of list_user_codespaces

\* the positions in GitHub's list of the codespaces that were returned
ReturnedNames == {ls_result.list[k].name : k \in DOMAIN ls_result.list}

\* every returned entry of a name built by create_codespace carries the
\* problem id the name was built from
RoundTrip ==
    \A k \in DOMAIN ls_result.list :
        \A p \in ProblemIds, x \in HexSuffixes :
            ls_result.list[k].display_name = DisplayName(p, x)
                => ls_result.list[k].problem_id = p

\* the returned list is the wanted ones of the listed codespaces, once each
ReturnsExactly(wanted) ==
    /\ ReturnedNames = wanted
    /\ Len(ls_result.list) = Cardinality(ReturnedNames)
    /\ \A k \in DOMAIN ls_result.list :
          ls_result.list[k].display_name =
              ls_codespaces[ls_result.list[k].name].display_name

\* C19 as stated: the result is exactly the codespaces whose display name
\* starts with 'llmeetcode-', restricted to the problem_id whenever one
\* is passed, and the extracted problem_id of a built name is the
\* original one, hyphens or not.
C19_PrefixAndPassedId ==
    ls_result.state = "returned" =>
        /\ ReturnsExactly(
              {k \in DOMAIN ls_codespaces :
                 /\ StartsWith(ls_codespaces[k].display_name, Prefix)
                 /\ ls_problem_id # None =>
                       ExtractProblemId(ls_codespaces[k].display_name)
                           = ls_problem_id})
        /\ RoundTrip

\* C19 amended: the restriction applies when a non-empty problem_id is
\* passed; an empty one restricts nothing.
C19_PrefixAndNonEmptyId ==
    ls_result.state = "returned" =>
        /\ ReturnsExactly(
              {k \in DOMAIN ls_codespaces :
                 /\ StartsWith(ls_codespaces[k].display_name, Prefix)
                 /\ (ls_problem_id # None /\ ls_problem_id # <<>>) =>
                       ExtractProblemId(ls_codespaces[k].display_name)
                           = ls_problem_id})
        /\ RoundTrip

\* asked for a hyphenated id, the call returned its codespace and left
\* out another llmeetcode codespace and one made elsewhere
C19_Witness ==
    /\ ls_result.state = "returned"
    /\ ls_problem_id = <<"a", "-", "b">>
    /\ Len(ls_result.list) = 1
    /\ ls_result.list[1].problem_id = <<"a", "-", "b">>
    /\ Len(ls_codespaces) = 2
    /\ \E k \in DOMAIN ls_codespaces :
          ls_codespaces[k].display_name = DisplayName(<<"a">>, <<"0", "f">>)

\* ---------------------------------------------------------------------
\* The chat routes of the Flask application
\* ---------------------------------------------------------------------

\* how many exchanges one problem's history is followed for
MaxExchanges == 2

\* "known" is in problems.json, "unknown" is not
ChatProblems == {"known", "unknown"}

KnownProblems == {"known"}

\* data.get('message', '')
Messages == {"", "hi", "why"}

\* Python's None among strings
NoneValue == "<None>"

\* what llm.chat returns: a response and no error; str(e) of an
\* exception; str(e) of an exception that has no text; no error and a
\* response without text
LLMResults ==
    {[response |-> "hint", error |-> NoneValue],
     [response |-> NoneValue, error |-> "quota"],
     [response |-> NoneValue, error |-> ""],
     [response |-> NoneValue, error |-> NoneValue]}

\* the truth value Python gives a string or None
Falsy(x) == x \in {"", NoneValue}

\* session.get(chat_key, [])
History(session, problem_id) ==
    IF problem_id \in DOMAIN session THEN session[problem_id] ELSE <<>>

\* session[chat_key] = value
SetKey(session, problem_id, value) ==
    [k \in DOMAIN session \cup {problem_id} |->
        IF k = problem_id THEN value ELSE session[k]]

\* the two session[chat_key].append(...) calls
Appended(history, user_message, response) ==
    history \o <<[role |-> "user", content |-> user_message],
                 [role |-> "model", content |-> response]>>

InitChat ==
    /\ chat_session = <<>>
    /\ chat_expected = [p \in ChatProblems |-> <<>>]
    /\ chat_resp = [endpoint |-> "none", problem_id |-> "", status |-> 0]
    /\ JudgeAtRest /\ WebAtRest /\ ListAtRest /\ ConcAtRest /\ LaterAtRest

\* POST /chat/<problem_id>
Chat(problem_id, user_message, result) ==
    /\ Len(History(chat_session, problem_id)) < 2 * MaxExchanges
    /\ LET status ==
              IF problem_id \notin KnownProblems THEN 404
              ELSE IF Falsy(user_message) THEN 400
              ELSE IF ~Falsy(result.error) THEN 500
              ELSE 200
           with_key ==
              IF problem_id \in DOMAIN chat_session THEN chat_session
              ELSE SetKey(chat_session, problem_id, <<>>)
       IN
       /\ chat_session' =
             CASE status \in {404, 400} -> chat_session
               [] status = 500 -> with_key
               [] OTHER ->
                    SetKey(with_key, problem_id,
                           Appended(with_key[problem_id], user_message,
                                    result.response))
       /\ chat_expected' =
             IF /\ problem_id \in KnownProblems
                /\ ~Falsy(user_message)
                /\ result.error = NoneValue
             THEN [chat_expected EXCEPT ![problem_id] =
                     @ \o <<[role |-> "user", content |-> user_message],
                            [role |-> "model", content |-> result.response]>>]
             ELSE chat_expected
       /\ chat_resp' = [endpoint |-> "chat", problem_id |-> problem_id,
                        status |-> status]
    /\ UNCHANGED <<judgeVars, webVars, listVars, concVars, laterVars>>

\* GET /chat/history/<problem_id>
ChatHistory(problem_id) ==
    /\ chat_resp' = [endpoint |-> "chat_history", problem_id |-> problem_id,
                     status |-> 200]
    /\ UNCHANGED <<chat_session, chat_expected>>
    /\ UNCHANGED <<judgeVars, webVars, listVars, concVars, laterVars>>

\* POST /chat/clear/<problem_id>
ClearChat(problem_id) ==
    /\ chat_session' = SetKey(chat_session, problem_id, <<>>)
    /\ chat_expected' = [chat_expected EXCEPT ![problem_id] = <<>>]
    /\ chat_resp' = [endpoint |-> "clear_chat", problem_id |-> problem_id,
                     status |-> 200]
    /\ UNCHANGED <<judgeVars, webVars, listVars, concVars, laterVars>>

NextChat ==
    \/ \E p \in ChatProblems, m \in Messages, r \in LLMResults : Chat(p, m, r)
    \/ \E p \in ChatProblems : ChatHistory(p)
    \/ \E p \in ChatProblems : ClearChat(p)

SpecChat == InitChat /\ [][NextChat]_vars

\* C20: in one session the stored history of every problem is the list
\* of the successful exchanges since the last clear, the user's entry
\* then the model's, in order; a chat that fails (unknown problem, empty
\* message, error of the LLM) appends nothing, clear empties it, a
\* problem never chatted about has none.
C20_HistoryIsSuccessfulExchanges ==
    \A p \in ChatProblems : History(chat_session, p) = chat_expected[p]

\* ---------------------------------------------------------------------
\* run_single_test called by requests that are served at the same time
\* ---------------------------------------------------------------------

\* how many run_single_test calls one request makes, one after another
MaxCalls == 2

\* the requests being served side by side
Requests == {"A", "B"}

\* the call a request is making: the request and the number of the test
CallId(r) == <<r, cc_call[r].n>>

NoCall == [pc |-> "idle", n |-> 0, f |-> 0, temp_path |-> 0,
           child |-> "none", mem |-> {}, child_unlinked |-> FALSE]

FreshName_Fixed(n) == 1

\* NamedTemporaryFile(suffix='.py', delete=False): a name that no file
\* has; names are not handed out twice
FreshName(n) == n + 1

\* the file system after path was opened for writing by call id
Opened(disk, path, id) ==
    [q \in DOMAIN disk \cup {path} |->
        IF q = path THEN [owner |-> id, content |-> <<>>] ELSE disk[q]]

\* the file system after os.unlink(path)
Unlinked(disk, path) == [q \in DOMAIN disk \ {path} |-> disk[q]]

\* subprocess.run(['python3', temp_path]): a new interpreter, with none
\* of the globals an earlier run has set
NewProcessMemory == {}

InitConc ==
    /\ cc_call = [r \in Requests |-> NoCall]
    /\ cc_disk = <<>>
    /\ cc_created = 0
    /\ cc_log = {}
    /\ JudgeAtRest /\ WebAtRest /\ ListAtRest /\ ChatAtRest /\ LaterAtRest

\* run_single_test is entered and NamedTemporaryFile creates the file
CcCreateTemp(r) ==
    LET c == cc_call[r]
        path == FreshName(cc_created)
    IN
    /\ c.pc = "idle"
    /\ c.n < MaxCalls
    /\ cc_created' = cc_created + 1
    /\ cc_disk' = Opened(cc_disk, path, <<r, c.n + 1>>)
    /\ cc_call' = [cc_call EXCEPT ![r] =
                     [NoCall EXCEPT !.pc = "opened", !.n = c.n + 1,
                                    !.f = path, !.mem = c.mem]]
    /\ UNCHANGED cc_log

\* f.write(full_code); temp_path = f.name
CcWriteTemp(r) ==
    LET c == cc_call[r] IN
    /\ c.pc = "opened"
    /\ \/ /\ c.f \in DOMAIN cc_disk
          /\ cc_disk' = [cc_disk EXCEPT ![c.f].content = CallId(r)]
          /\ cc_call' = [cc_call EXCEPT ![r].pc = "written",
                                        ![r].temp_path = c.f]
       \/ \* write raises: temp_path is never bound
          /\ cc_call' = [cc_call EXCEPT ![r].pc = "finally"]
          /\ UNCHANGED cc_disk
    /\ UNCHANGED <<cc_created, cc_log>>

\* subprocess.run starts the child
CcSpawn(r) ==
    /\ cc_call[r].pc = "written"
    /\ cc_call' = [cc_call EXCEPT ![r].pc = "running",
                                  ![r].child = "spawned",
                                  ![r].mem = NewProcessMemory]
    /\ UNCHANGED <<cc_disk, cc_created, cc_log>>

\* the child reads the file it was given and runs it: the code sets a
\* global and may remove its own file
CcChildRuns(r, unlinks) ==
    LET c == cc_call[r] IN
    /\ c.pc = "running"
    /\ c.child = "spawned"
    /\ cc_log' = cc_log \cup
          {[call |-> CallId(r),
            ran |-> IF c.temp_path \in DOMAIN cc_disk
                    THEN cc_disk[c.temp_path].content ELSE <<"missing">>,
            seen |-> c.mem]}
    /\ cc_disk' = IF unlinks THEN Unlinked(cc_disk, c.temp_path) ELSE cc_disk
    /\ cc_call' = [cc_call EXCEPT ![r].child = "exited",
                                  ![r].mem = c.mem \cup {"g"},
                                  ![r].child_unlinked = unlinks]
    /\ UNCHANGED cc_created

\* subprocess.run returns when the child has exited
CcWaitExit(r) ==
    /\ cc_call[r].pc = "running"
    /\ cc_call[r].child = "exited"
    /\ cc_call' = [cc_call EXCEPT ![r].pc = "finally"]
    /\ UNCHANGED <<cc_disk, cc_created, cc_log>>

\* five seconds pass: the child is killed, TimeoutExpired is raised
CcTimeout(r) ==
    /\ cc_call[r].pc = "running"
    /\ cc_call[r].child = "spawned"
    /\ cc_call' = [cc_call EXCEPT ![r].pc = "finally", ![r].child = "killed"]
    /\ UNCHANGED <<cc_disk, cc_created, cc_log>>

\* the finally clause; when os.unlink raises, run_tests and the request
\* end there
CcFinally(r) ==
    LET c == cc_call[r] IN
    /\ c.pc = "finally"
    /\ IF ~UnlinkGuard(c.temp_path)
       THEN /\ cc_call' = [cc_call EXCEPT ![r].pc = "idle"]
            /\ UNCHANGED cc_disk
       ELSE IF c.temp_path \in DOMAIN cc_disk
       THEN /\ cc_disk' = Unlinked(cc_disk, c.temp_path)
            /\ cc_call' = [cc_call EXCEPT ![r].pc = "idle"]
       ELSE /\ cc_call' = [cc_call EXCEPT ![r].pc = "raised"]
            /\ UNCHANGED cc_disk
    /\ UNCHANGED <<cc_created, cc_log>>

nonConc == <<judgeVars, webVars, listVars, chatVars, laterVars>>

NextConc ==
    \/ \E r \in Requests : CcCreateTemp(r) /\ UNCHANGED nonConc
    \/ \E r \in Requests : CcWriteTemp(r) /\ UNCHANGED nonConc
    \/ \E r \in Requests : CcSpawn(r) /\ UNCHANGED nonConc
    \/ \E r \in Requests, u \in BOOLEAN : CcChildRuns(r, u) /\ UNCHANGED nonConc
    \/ \E r \in Requests : CcWaitExit(r) /\ UNCHANGED nonConc
    \/ \E r \in Requests : CcTimeout(r) /\ UNCHANGED nonConc
    \/ \E r \in Requests : CcFinally(r) /\ UNCHANGED nonConc

SpecConc == InitConc /\ [][NextConc]_vars

\* the calls that hold a temporary file of their own
Holding == {r \in Requests : cc_call[r].pc \in {"opened", "written", "running"}}

----------------------------------------------------------------------------
\* ---------------------------------------------------------------------
\* format_test_cases (llm.py): the test cases as the prompt shows them
\* ---------------------------------------------------------------------

\* how many test cases a problem has
MaxFormatted == 2

\* the text of an input or expected expression
FmtTexts == {<<"f", "(", "1", ")">>, <<"2">>}

FmtTests == [input : FmtTexts, expected : FmtTexts,
             hidden : {"true", "false", "absent"}]

FmtLists == UNION {[1..n -> FmtTests] : n \in 0..MaxFormatted}

TestWord == <<"T", "e", "s", "t", " ">>
Colon == <<":", " ">>
Arrow == <<" ", "→", " ">>
HiddenOpen == <<"(", "+", " ">>
HiddenClose == <<" ", "h", "i", "d", "d", "e", "n", " ", "t", "e", "s", "t", "s", ")">>

RECURSIVE JoinLines(_)
\* '\n'.join(lines)
JoinLines(lines) ==
    IF lines = <<>> THEN <<>>
    ELSE IF Len(lines) = 1 THEN lines[1]
    ELSE lines[1] \o NL \o JoinLines(Tail(lines))

\* f"Test {i}: {test['input']} → {test['expected']}"
TestLine(k, test) ==
    TestWord \o Str(k) \o Colon \o test.input \o Arrow \o test.expected

\* f"(+ {hidden_count} hidden tests)"
HiddenLine(hidden_count) == HiddenOpen \o Str(hidden_count) \o HiddenClose

\* a function that lists every test, hidden or not
format_test_cases_AllListed(tests_) ==
    LET lines == [k \in 1..Len(tests_) |-> TestLine(k, tests_[k])]
        hidden_count == Len(tests_) - Len(SelectSeq(tests_, LAMBDA t : ~Hidden(t)))
    IN JoinLines(IF hidden_count > 0
                 THEN Append(lines, HiddenLine(hidden_count)) ELSE lines)

format_test_cases(tests_) ==
    LET visible_tests == SelectSeq(tests_, LAMBDA t : ~Hidden(t))
        lines == [k \in 1..Len(visible_tests) |-> TestLine(k, visible_tests[k])]
        hidden_count == Len(tests_) - Len(visible_tests)
    IN JoinLines(IF hidden_count > 0
                 THEN Append(lines, HiddenLine(hidden_count)) ELSE lines)

InitFormat ==
    /\ ft_tests \in FmtLists
    /\ ft_result = [state |-> "not called", text |-> <<>>]
    /\ JudgeAtRest /\ WebAtRest /\ ListAtRest /\ ChatAtRest /\ ConcAtRest
    /\ UrlAtRest /\ SubAtRest /\ RaceAtRest

FormatTestCases ==
    /\ ft_result.state = "not called"
    /\ ft_result' = [state |-> "returned", text |-> format_test_cases(ft_tests)]
    /\ UNCHANGED ft_tests
    /\ UNCHANGED <<judgeVars, webVars, listVars, chatVars, concVars, urlVars,
                   subVars, raceVars>>

NextFormat == FormatTestCases

SpecFormat == InitFormat /\ [][NextFormat]_vars

\* Properties of format_test_cases

RECURSIVE SplitLines(_)
\* the lines of a text
SplitLines(s) ==
    IF s = <<>> THEN << <<>> >>
    ELSE LET rest == SplitLines(Tail(s)) IN
         IF Head(s) = "\n"
         THEN << <<>> >> \o rest
         ELSE << <<Head(s)>> \o rest[1] >> \o Tail(rest)

\* the positions of the tests that are not hidden
VisibleAt(list) == {k \in DOMAIN list : list[k].hidden # "true"}

\* the two lists differ at most in the texts of their hidden tests
SameButHiddenTexts(a, b) ==
    /\ Len(a) = Len(b)
    /\ \A k \in DOMAIN a :
          /\ a[k].hidden = b[k].hidden
          /\ k \in VisibleAt(a) => a[k] = b[k]

\* C21: the result has one line per test that is not hidden, numbered from
\* 1 in the order of the list, then a line with the number of hidden tests
\* when there are any; it is the same for every list that differs only in
\* the texts of hidden tests; the empty list gives the empty string.
C21_OnlyVisibleTestsShown ==
    ft_result.state = "returned" =>
        LET lines == SplitLines(ft_result.text)
            k == Cardinality(VisibleAt(ft_tests))
            n == Len(ft_tests) - k
        IN
        /\ ft_tests = <<>> => ft_result.text = <<>>
        /\ ft_tests # <<>> => Len(lines) = k + (IF n > 0 THEN 1 ELSE 0)
        /\ \A p \in VisibleAt(ft_tests) :
              LET j == Cardinality({q \in VisibleAt(ft_tests) : q <= p}) IN
              lines[j] = TestLine(j, ft_tests[p])
        /\ n > 0 => lines[k + 1] = HiddenLine(n)
        /\ \A other \in FmtLists :
              SameButHiddenTexts(ft_tests, other)
                  => format_test_cases(other) = ft_result.text

\* a hidden test before a listed one: the listed one is numbered 1
C21_Witness ==
    /\ ft_result.state = "returned"
    /\ Len(ft_tests) = 2
    /\ ft_tests[1].hidden = "true"
    /\ ft_tests[2].hidden = "absent"
    /\ ft_tests[1].input # ft_tests[2].input
    /\ ft_result.text = TestLine(1, ft_tests[2]) \o NL \o HiddenLine(1)

----------------------------------------------------------------------------
\* ---------------------------------------------------------------------
\* get_database_url (app/database.py)
\* ---------------------------------------------------------------------

\* of how many parts a URL is put together
MaxParts == 2

\* "postgres://"
Postgres == <<"p", "o", "s", "t", "g", "r", "e", "s", ":", "/", "/">>

\* "postgresql://"
Postgresql == <<"p", "o", "s", "t", "g", "r", "e", "s", "q", "l", ":", "/", "/">>

\* "u@h/d"
HostPart == <<"u", "@", "h", "/", "d">>

UrlParts == {Postgres, Postgresql, HostPart}

RECURSIVE Concat(_)
Concat(parts) == IF parts = <<>> THEN <<>> ELSE Head(parts) \o Concat(Tail(parts))

\* the URLs: the empty string, each part, each part behind each part, ...
Urls == {Concat(parts) : parts \in UNION {[1..n -> UrlParts] : n \in 0..MaxParts}}

\* where s holds old for the first time, 0 when nowhere
Find(s, old) ==
    LET at == {k \in 1..(Len(s) - Len(old) + 1) :
                  SubSeq(s, k, k + Len(old) - 1) = old}
    IN IF at = {} THEN 0 ELSE CHOOSE k \in at : \A j \in at : k <= j

\* s.replace(old, new, 1)
ReplaceOnce(s, old, new) ==
    LET k == Find(s, old) IN
    IF k = 0 THEN s
    ELSE SubSeq(s, 1, k - 1) \o new \o SubSeq(s, k + Len(old), Len(s))

\* a function that does not look where the URL starts
get_database_url_Anywhere(url, env) ==
    LET u == IF url = None THEN env ELSE url IN
    IF u = None THEN [state |-> "raised", value |-> "ValueError"]
    ELSE [state |-> "returned", value |-> ReplaceOnce(u, Postgres, Postgresql)]

\* get_database_url(url) with DATABASE_URL = env
get_database_url(url, env) ==
    LET u == IF url = None THEN env ELSE url IN
    IF u = None THEN [state |-> "raised", value |-> "ValueError"]
    ELSE [state |-> "returned",
          value |-> IF StartsWith(u, Postgres)
                    THEN ReplaceOnce(u, Postgres, Postgresql) ELSE u]

InitUrl ==
    /\ du_url \in Urls \cup {None}
    /\ du_env \in Urls \cup {None}
    /\ du_result = [state |-> "not called", value |-> <<>>, times |-> 0]
    /\ JudgeAtRest /\ WebAtRest /\ ListAtRest /\ ChatAtRest /\ ConcAtRest
    /\ FmtAtRest /\ SubAtRest /\ RaceAtRest

nonUrl == <<judgeVars, webVars, listVars, chatVars, concVars, fmtVars, subVars,
            raceVars>>

\* get_database_url(url), or get_database_url() when url is None
GetDatabaseUrl ==
    /\ du_result.times = 0
    /\ LET r == get_database_url(du_url, du_env) IN
       du_result' = [state |-> r.state, value |-> r.value, times |-> 1]
    /\ UNCHANGED <<du_url, du_env>>
    /\ UNCHANGED nonUrl

\* the function applied to what it returned
GetDatabaseUrlAgain ==
    /\ du_result.times = 1
    /\ du_result.state = "returned"
    /\ du_url' = du_result.value
    /\ LET r == get_database_url(du_result.value, du_env) IN
       du_result' = [state |-> r.state, value |-> r.value, times |-> 2]
    /\ UNCHANGED du_env
    /\ UNCHANGED nonUrl

NextUrl ==
    \/ GetDatabaseUrl
    \/ GetDatabaseUrlAgain

SpecUrl == InitUrl /\ [][NextUrl]_vars

\* Properties of get_database_url

\* C23: the call returns the URL it was given, or DATABASE_URL when it was
\* given none, with a "postgres://" at its start replaced by
\* "postgresql://" and nothing else changed; it raises ValueError when it
\* was given none and DATABASE_URL is not set; applied to its own result it
\* returns that result.
C23_NormalisesLeadingSchemeOnce ==
    [][/\ du_result'.times = 1 =>
            LET u == IF du_url = None THEN du_env ELSE du_url IN
            IF u = None
            THEN du_result'.state = "raised" /\ du_result'.value = "ValueError"
            ELSE /\ du_result'.state = "returned"
                 /\ du_result'.value =
                      IF StartsWith(u, Postgres)
                      THEN Postgresql \o SubSeq(u, Len(Postgres) + 1, Len(u))
                      ELSE u
       /\ du_result'.times = 2 =>
            /\ du_result'.state = "returned"
            /\ du_result'.value = du_result.value
      ]_vars

\* "postgres://postgres://" was given: only its start was replaced, and the
\* second application changed nothing
C23_Witness ==
    /\ du_result.times = 2
    /\ du_result.value = Postgresql \o Postgres

----------------------------------------------------------------------------
\* ---------------------------------------------------------------------
\* The submit and history routes of the Flask application (app.py)
\* ---------------------------------------------------------------------

\* how many submit requests one session makes
MaxSubmits == 3

\* data/problems.json: the ids, and how many test cases each problem has
StoredProblems == {"p1", "p2"}

TestsOf(problem_id) == IF problem_id = "p1" THEN 2 ELSE 1

\* the ids a request can name
RequestedIds == StoredProblems \cup {"px"}

\* what the submitted code does: it passes every test, it fails the last
\* test of the problem, or it removes the file it is run from
SubmittedCodes == {"right", "wrong", "unlinks"}

\* str(uuid.uuid4())[:8]
Uuids == {"0a1b2c3d", "9f8e7d6c"}

\* the status Flask answers when request.json finds no JSON body
NoJsonStatuses == {400, 415}

\* next((p for p in problems if p['id'] == problem_id), None) of a store
\* that answers with its first problem when none matches
FindProblem_First(problem_id) ==
    IF problem_id \in StoredProblems THEN problem_id ELSE "p1"

\* next((p for p in problems if p['id'] == problem_id), None)
FindProblem(problem_id) ==
    IF problem_id \in StoredProblems THEN problem_id ELSE "None"

\* the verdict run_single_test returns for test k of n
SubmitVerdict(submitted, k, n) ==
    IF submitted = "right" \/ k < n
    THEN [passed |-> TRUE, message |-> MsgTestPassed]
    ELSE [passed |-> FALSE, message |-> FailPrefix]

\* run_tests(code, problem['tests'], ...): the dict it returns, or the
\* exception that leaves it when the cleanup of a call fails
SubmitRunTests(submitted, problem_id) ==
    LET n == TestsOf(problem_id)
        test_results == [k \in 1..n |-> SubmitVerdict(submitted, k, n)]
    IN IF submitted = "unlinks"
       THEN [state |-> "raised", runs |-> 1, all_passed |-> FALSE,
             test_results |-> <<>>]
       ELSE [state |-> "returned", runs |-> n,
             all_passed |-> \A k \in 1..n : test_results[k].passed,
             test_results |-> test_results]

\* session.get('submissions', {}).get(problem_id, [])
Submissions(session, problem_id) ==
    IF session.has_key /\ problem_id \in DOMAIN session.submissions
    THEN session.submissions[problem_id] ELSE <<>>

\* the record appended to the front of the list
Recorded_Front(session, problem_id, record) ==
    [has_key |-> TRUE,
     submissions |->
        [q \in (DOMAIN session.submissions) \cup {problem_id} |->
            IF q = problem_id
            THEN <<record>> \o Submissions(session, problem_id)
            ELSE session.submissions[q]]]

\* session['submissions'][problem_id].append(record), the two keys made
\* when missing
Recorded(session, problem_id, record) ==
    [has_key |-> TRUE,
     submissions |->
        [q \in (DOMAIN session.submissions) \cup {problem_id} |->
            IF q = problem_id
            THEN Append(Submissions(session, problem_id), record)
            ELSE session.submissions[q]]]

SubmitAnswer(problem_id, status, body) ==
    /\ sb_resp' = [endpoint |-> "submit", problem_id |-> problem_id,
                   status |-> status, body |-> body]
    /\ sb_log' = Append(sb_log, [problem_id |-> problem_id, status |-> status,
                                 body |-> body])

InitSubmit ==
    /\ sb_session = [has_key |-> FALSE, submissions |-> <<>>]
    /\ sb_resp = [endpoint |-> "none", problem_id |-> "", status |-> 0,
                  body |-> <<>>]
    /\ sb_runs = 0
    /\ sb_log = <<>>
    /\ JudgeAtRest /\ WebAtRest /\ ListAtRest /\ ChatAtRest /\ ConcAtRest
    /\ FmtAtRest /\ UrlAtRest /\ RaceAtRest

nonSubmit == <<judgeVars, webVars, listVars, chatVars, concVars, fmtVars,
               urlVars, raceVars>>

\* POST /submit/<problem_id>
Submit(problem_id, json, submitted) ==
    /\ Len(sb_log) < MaxSubmits
    /\ IF FindProblem(problem_id) = "None"
       THEN /\ SubmitAnswer(problem_id, 404,
                            [success |-> FALSE, error |-> "Problem not found"])
            /\ sb_runs' = 0
            /\ UNCHANGED sb_session
       ELSE IF ~json
       THEN /\ \E status \in NoJsonStatuses :
                  SubmitAnswer(problem_id, status, [error |-> "no JSON body"])
            /\ sb_runs' = 0
            /\ UNCHANGED sb_session
       ELSE LET ran == SubmitRunTests(submitted, FindProblem(problem_id)) IN
            /\ sb_runs' = ran.runs
            /\ IF ran.state = "raised"
               THEN /\ SubmitAnswer(problem_id, 500,
                                    [error |-> "FileNotFoundError"])
                    /\ UNCHANGED sb_session
               ELSE /\ \E id \in Uuids :
                          sb_session' = Recorded(sb_session, problem_id,
                              [id |-> id, passed |-> ran.all_passed,
                               results |-> ran.test_results])
                    /\ SubmitAnswer(problem_id, 200,
                                    [all_passed |-> ran.all_passed,
                                     test_results |-> ran.test_results])

\* GET /history/<problem_id>
SubmitHistory(problem_id) ==
    /\ sb_resp' = [endpoint |-> "history", problem_id |-> problem_id,
                   status |-> 200,
                   body |-> Submissions(sb_session, problem_id)]
    /\ sb_runs' = 0
    /\ UNCHANGED <<sb_session, sb_log>>

NextSubmit ==
    \/ \E problem_id \in RequestedIds, json \in BOOLEAN,
          submitted \in SubmittedCodes :
            Submit(problem_id, json, submitted) /\ UNCHANGED nonSubmit
    \/ \E problem_id \in RequestedIds :
            SubmitHistory(problem_id) /\ UNCHANGED nonSubmit

SpecSubmit == InitSubmit /\ [][NextSubmit]_vars

\* Properties of submit and history

\* the step answered a submit request
Submitted == Len(sb_log') = Len(sb_log) + 1

\* C22: a submit for an id that is not in the store is answered 404 with
\* success false, runs no test case and leaves the session as it was.
C22_UnknownProblemRefused ==
    [][(Submitted /\ sb_resp'.problem_id \notin StoredProblems) =>
        /\ sb_resp'.status = 404
        /\ sb_resp'.body.success = FALSE
        /\ sb_runs' = 0
        /\ sb_session' = sb_session
      ]_vars

\* an unknown id was refused in a session that holds submissions
C22_Witness ==
    /\ sb_resp.endpoint = "submit"
    /\ sb_resp.status = 404
    /\ sb_session.has_key
    /\ Submissions(sb_session, "p1") # <<>>

\* the submit requests for the problem that were not answered 404
Answered(problem_id) ==
    SelectSeq(sb_log, LAMBDA e : e.problem_id = problem_id /\ e.status # 404)

\* C30: the history of a problem holds one record per submit to it that was
\* not answered 404, in the order of the submits, with passed and results as
\* returned to the client; it is empty before the first submit.
C30_HistoryIsAnsweredSubmits ==
    \A problem_id \in RequestedIds :
        LET history == Submissions(sb_session, problem_id)
            answered == Answered(problem_id)
        IN
        /\ Len(history) = Len(answered)
        /\ \A k \in DOMAIN history :
              /\ answered[k].status = 200
              /\ history[k].passed = answered[k].body.all_passed
              /\ history[k].results = answered[k].body.test_results

----------------------------------------------------------------------------
\* ---------------------------------------------------------------------
\* mark_complete and complete_with_token for one user, served at the same
\* time by the worker processes of the application over one database
\* ---------------------------------------------------------------------

\* the processes that serve the application; each runs one event loop
Workers == {1, 2}

\* the problems the requests are about, all for the same user
RaceProblems == {"p1", "p2"}

RaceKinds == {"mark_complete", "complete_with_token"}

NoRequest ==
    [pc |-> "idle", kind |-> "none", problem_id |-> "none", worker |-> 0,
     existing |-> FALSE, status |-> "none"]

InitRace ==
    /\ rc_req = [r \in Requests |-> NoRequest]
    /\ rc_rows = [completed |-> [p \in RaceProblems |-> 0],
                  used |-> [p \in RaceProblems |-> FALSE]]
    /\ JudgeAtRest /\ WebAtRest /\ ListAtRest /\ ChatAtRest /\ ConcAtRest
    /\ FmtAtRest /\ UrlAtRest /\ SubAtRest

nonRace == <<judgeVars, webVars, listVars, chatVars, concVars, fmtVars,
             urlVars, subVars>>

\* a worker takes the request and get_db opens its database session
RcAccept(r, kind, problem_id, worker) ==
    /\ rc_req[r].pc = "idle"
    /\ rc_req' = [rc_req EXCEPT ![r] =
          [pc |-> "accepted", kind |-> kind, problem_id |-> problem_id,
           worker |-> worker, existing |-> FALSE, status |-> "none"]]
    /\ UNCHANGED rc_rows

\* the event loop of the worker is running the body of another handler: the
\* bodies are coroutines without an await, so a loop runs one to its end
\* before it starts the next
LoopBusy(r) ==
    \E o \in Requests \ {r} :
        /\ rc_req[o].worker = rc_req[r].worker
        /\ rc_req[o].pc = "queried"

\* existing = db.query(CompletedProblem).filter(...).first()
RcQuery(r) ==
    /\ rc_req[r].pc = "accepted"
    /\ ~LoopBusy(r)
    /\ rc_req' = [rc_req EXCEPT
          ![r].pc = "queried",
          ![r].existing = rc_rows.completed[rc_req[r].problem_id] > 0]
    /\ UNCHANGED rc_rows

\* if existing: return already_completed;  db.add(completion); db.commit()
RcFinish(r) ==
    LET p == rc_req[r].problem_id IN
    /\ rc_req[r].pc = "queried"
    /\ IF rc_req[r].existing
       THEN /\ rc_req' = [rc_req EXCEPT ![r].pc = "answered",
                                        ![r].status = "already_completed"]
            /\ UNCHANGED rc_rows
       ELSE /\ rc_req' = [rc_req EXCEPT ![r].pc = "answered",
                                        ![r].status = "completed"]
            /\ rc_rows' =
                 [completed |-> [rc_rows.completed EXCEPT ![p] = @ + 1],
                  used |-> IF rc_req[r].kind = "complete_with_token"
                           THEN [rc_rows.used EXCEPT ![p] = TRUE]
                           ELSE rc_rows.used]

NextRace ==
    \/ \E r \in Requests, kind \in RaceKinds, p \in RaceProblems,
          w \in Workers :
            RcAccept(r, kind, p, w) /\ UNCHANGED nonRace
    \/ \E r \in Requests : RcQuery(r) /\ UNCHANGED nonRace
    \/ \E r \in Requests : RcFinish(r) /\ UNCHANGED nonRace

SpecRace == InitRace /\ [][NextRace]_vars

\* Properties of the concurrent marks

\* C29: whatever requests were served at the same time, the table holds at
\* most one row for each (user, problem) pair.
C29_AtMostOneRowPerPair ==
    \A p \in RaceProblems : rc_rows.completed[p] <= 1
====
